---- MODULE Spec2Model ----
(***************************************************************************)
(* MindEase journal (Deathmon14/Mental): the document-store revision       *)
(* src/v3cla5.py, one Streamlit session against one MongoDB database.      *)
(*                                                                         *)
(* A Python string is a sequence: of one-character strings where the code  *)
(* scans it character by character (the remote reply in analyze_mood, a    *)
(* formatted date or time), of longer fragments where it only stores,      *)
(* tests for emptiness or concatenates it (a journal body, a mood note, an *)
(* f-string).  The empty string is <<>>.  Mood labels, user names and      *)
(* passwords, which the code only compares, are TLA+ strings.              *)
(***************************************************************************)
EXTENDS Integers, Sequences, FiniteSets, TLC

VARIABLES
    logged_in,          \* st.session_state.logged_in
    current_user,       \* st.session_state.current_user
    journal_entries,    \* st.session_state.journal_entries
    mood_scores,        \* st.session_state.mood_scores
    streak,             \* st.session_state.streak
    last_entry_date,    \* st.session_state.last_entry_date
    current_view,       \* st.session_state.current_view
    chat_history,       \* st.session_state.chat_history
    current_chat_id,    \* st.session_state.current_chat_id
    chats,              \* st.session_state.chats
    chat_ref,           \* the key of chats whose list object chat_history is, or Null
    db_users,           \* db.users
    db_journal_entries, \* db.journal_entries
    db_chats,           \* db.chats
    db_connected,       \* db is not None: connect_to_mongodb() returned a database
    signups,            \* the sign-up form's handler runs of other visitors in flight
    tab,                \* a second session: another browser tab of the same deployment
    now,                \* the wall clock read by datetime.now()
    submission_days,    \* observation: the dates on which this session submitted an entry
    steps,              \* observation: the handler runs and clock moves so far
    ev                  \* observation: what the last handler or function run was given,
                        \* requested and returned ("other": a run nothing is recorded of)

vars == <<logged_in, current_user, journal_entries, mood_scores, streak,
          last_entry_date, current_view, chat_history, current_chat_id, chats,
          chat_ref, db_users, db_journal_entries, db_chats, db_connected, signups, tab,
          now, submission_days, steps, ev>>

\* Python's None: as a user name, and (falsy, like the empty string) where the
\* code holds a formatted date or a chat id
None == "None"

Null == <<>>

(***************************************************************************)
(* Bounds of the model.                                                    *)
(***************************************************************************)
MaxReplyLen == 2
MaxInsightEntries == 6
MaxSteps == 6
MaxStreakEntries == 4
MaxStreakDays == 3
MaxSavedDocs == 2
MaxTabEntries == 2

(***************************************************************************)
(* Characters and integers.                                                *)
(***************************************************************************)
DigitChars == <<"0", "1", "2", "3", "4", "5", "6", "7", "8", "9">>

DigitSet == {DigitChars[i] : i \in 1..10}

\* a character that is a digit to str.isdigit and is not a decimal digit: the
\* superscript two, U+00B2
SUPERSCRIPT_TWO == "U+00B2"

\* str.isdigit on one character
isdigit(c) == c \in DigitSet \cup {SUPERSCRIPT_TWO}

DigitValue(c) == (CHOOSE i \in 1..10 : DigitChars[i] = c) - 1

\* ''.join(filter(str.isdigit, s)): the digit characters of s, in order
FilterDigits(s) == SelectSeq(s, isdigit)

\* int(s) raises ValueError on a character that is not a decimal digit
int_raises(s) == \E i \in 1..Len(s) : s[i] \notin DigitSet

\* int(s) for a non-empty string of decimal digits
RECURSIVE int(_)
int(s) ==
    IF Len(s) = 0 THEN 0
    ELSE 10 * int(SubSeq(s, 1, Len(s) - 1)) + DigitValue(s[Len(s)])

IsSpace(c) == c = " "

\* str.strip(): leading and trailing whitespace removed
RECURSIVE strip(_)
strip(s) ==
    IF Len(s) = 0 THEN s
    ELSE IF IsSpace(s[1]) THEN strip(Tail(s))
    ELSE IF IsSpace(s[Len(s)]) THEN strip(SubSeq(s, 1, Len(s) - 1))
    ELSE s

Max(a, b) == IF a >= b THEN a ELSE b

Min(a, b) == IF a <= b THEN a ELSE b

(***************************************************************************)
(* The remote chat-completion service: what one requests.post can do.      *)
(*   ok        status 200 with a well-formed body carrying text            *)
(*   status    any status other than 200                                   *)
(*   exception requests.post or the body access raised                     *)
(***************************************************************************)
OkResponse(text) == [kind |-> "ok", text |-> text]

StatusResponse == [kind |-> "status", text |-> <<>>]

ExceptionResponse == [kind |-> "exception", text |-> <<>>]

FALLBACK_CONNECT == <<"I'm having trouble connecting right now. Please try again later.">>

FALLBACK_INSIGHTS == <<"Unable to generate insights at this time.">>

KEEP_JOURNALING ==
    <<"Keep journaling! Insights will be generated after you have at least 3 entries.">>

(***************************************************************************)
(* analyze_mood(text): the value returned and whether st.error was called. *)
(* No exception leaves the function: every path ends in a return.          *)
(***************************************************************************)
analyze_mood(resp) ==
    IF resp.kind = "ok" THEN
        LET score_text == strip(resp.text)
            score == FilterDigits(score_text)
        IN  IF Len(score) > 0 /\ int_raises(score)
            THEN [ret |-> 5, error_shown |-> TRUE, raised |-> FALSE]
            ELSE [ret |-> IF Len(score) > 0 THEN int(score) ELSE 5,
                  error_shown |-> FALSE, raised |-> FALSE]
    ELSE IF resp.kind = "status" THEN
        [ret |-> 5, error_shown |-> FALSE, raised |-> FALSE]
    ELSE
        [ret |-> 5, error_shown |-> TRUE, raised |-> FALSE]

(***************************************************************************)
(* The journal view's mood score.                                          *)
(***************************************************************************)
\* the five labels of the mood selector, written without their emoji prefix
MoodOptions == {"Very Low", "Low", "Neutral", "Good", "Great"}

mood_numeric(mood_selection) ==
    CASE mood_selection = "Very Low" -> 2
      [] mood_selection = "Low" -> 4
      [] mood_selection = "Neutral" -> 5
      [] mood_selection = "Good" -> 7
      [] mood_selection = "Great" -> 9
      [] OTHER -> 5

\* int((mood_numeric * 0.7) + (text_mood * 0.3)) rounded half up instead
weighted_roundhalfup(mn, text_mood) == (7 * mn + 3 * text_mood + 5) \div 10

\* int((mood_numeric * 0.7) + (text_mood * 0.3)): int() truncates, and both
\* operands are non-negative, so it is the floor of (7*mn + 3*text_mood)/10.
\* The double-precision sum falls below the exact value only from 19 up
\* (first at mn = 2, text_mood = 62), where the clip to 10 hides it.
weighted(mn, text_mood) == (7 * mn + 3 * text_mood) \div 10

clip_lower_only(x) == Max(1, x)

\* max(1, min(10, mood_score))
clip(x) == Max(1, Min(10, x))

\* the blend applied, and the remote call made, whether or not there is journal text
score_block_always_blend(mood_selection, journal_input, resp) ==
    LET text_mood == analyze_mood(resp)
    IN  [mood_score |-> clip(weighted(mood_numeric(mood_selection), text_mood.ret)),
         requests |-> <<journal_input>>,
         error_shown |-> text_mood.error_shown]

\* src/v3cla5.py 1203-1220: the score stored with the entry, the journal text
\* of each mood-classification request issued, and whether st.error was called
score_block(mood_selection, journal_input, resp) ==
    IF journal_input # <<>> THEN
        LET text_mood == analyze_mood(resp)
        IN  [mood_score |-> clip(weighted(mood_numeric(mood_selection), text_mood.ret)),
             requests |-> <<journal_input>>,
             error_shown |-> text_mood.error_shown]
    ELSE
        [mood_score |-> clip(mood_numeric(mood_selection)),
         requests |-> <<>>,
         error_shown |-> FALSE]

(***************************************************************************)
(* The three text-returning remote calls.  Each returns the text handed    *)
(* back, the messages array of the request it issued, and whether st.error *)
(* was called.                                                             *)
(***************************************************************************)
Msg(role, content) == [role |-> role, content |-> content]

\* a failure that escapes the function instead of being absorbed
get_ai_response_raises(message, history, resp) ==
    [request |-> history \o <<Msg("user", message)>>,
     ret |-> IF resp.kind = "ok" THEN resp.text ELSE <<>>,
     error_shown |-> FALSE,
     raised |-> resp.kind # "ok"]

\* src/v3cla5.py 699-748
get_ai_response(message, history, resp) ==
    LET api_messages == [i \in 1..Len(history) |->
                            Msg(history[i].role, history[i].content)]
                        \o <<Msg("user", message)>>
    IN  [request |-> api_messages,
         ret |-> IF resp.kind = "ok" THEN resp.text ELSE FALLBACK_CONNECT,
         error_shown |-> resp.kind # "ok",
         raised |-> FALSE]

\* src/v3cla5.py 751-796
get_ai_reflection(mood_input, journal_input, resp) ==
    [request |-> <<Msg("user", <<"Mood: ">> \o mood_input
                               \o <<"Journal Entry: ">> \o journal_input)>>,
     ret |-> IF resp.kind = "ok" THEN resp.text ELSE FALLBACK_CONNECT,
     error_shown |-> resp.kind # "ok",
     raised |-> FALSE]

\* s[-n:]
LastN(s, n) == SubSeq(s, Max(1, Len(s) - n + 1), Len(s))

\* sep.join(parts)
RECURSIVE join(_, _)
join(sep, parts) ==
    IF Len(parts) = 0 THEN <<>>
    ELSE IF Len(parts) = 1 THEN parts[1]
    ELSE parts[1] \o sep \o join(sep, Tail(parts))

INSIGHT_WINDOW == 5

INSIGHT_MIN_ENTRIES == 3

\* every entry is sent, not the last five
generate_insights_all(entries, resp) ==
    IF Len(entries) < INSIGHT_MIN_ENTRIES THEN
        [requests |-> <<>>, ret |-> KEEP_JOURNALING, error_shown |-> FALSE, raised |-> FALSE]
    ELSE
        [requests |-> <<join(<<" ">>, [i \in 1..Len(entries) |-> entries[i].journal])>>,
         ret |-> IF resp.kind = "ok" THEN resp.text ELSE FALLBACK_INSIGHTS,
         error_shown |-> FALSE, raised |-> FALSE]

\* src/v3cla5.py 799-839: the combined text of each request issued, then the
\* returned text
generate_insights(entries, resp) ==
    IF Len(entries) < INSIGHT_MIN_ENTRIES THEN
        [requests |-> <<>>, ret |-> KEEP_JOURNALING, error_shown |-> FALSE, raised |-> FALSE]
    ELSE
        LET recent == LastN(entries, INSIGHT_WINDOW)
            recent_entries == [i \in 1..Len(recent) |-> recent[i].journal]
            combined_text == join(<<" ">>, recent_entries)
        IN  [requests |-> <<combined_text>>,
             ret |-> IF resp.kind = "ok" THEN resp.text ELSE FALLBACK_INSIGHTS,
             error_shown |-> FALSE, raised |-> FALSE]

(***************************************************************************)
(* Dates and times.  A date is <<year, month, day>>; the clock is a date    *)
(* and the minute of the day.                                              *)
(***************************************************************************)
IsLeap(y) == (y % 4 = 0) /\ ((y % 100 # 0) \/ (y % 400 = 0))

DaysInMonth(y, m) ==
    IF m = 2 THEN (IF IsLeap(y) THEN 29 ELSE 28)
    ELSE IF m \in {4, 6, 9, 11} THEN 30 ELSE 31

RECURSIVE DaysBeforeMonth(_, _)
DaysBeforeMonth(y, m) ==
    IF m = 1 THEN 0 ELSE DaysBeforeMonth(y, m - 1) + DaysInMonth(y, m - 1)

DaysBeforeYear(y) ==
    LET p == y - 1 IN p * 365 + (p \div 4) - (p \div 100) + (p \div 400)

\* date.toordinal()
toordinal(d) == DaysBeforeYear(d[1]) + DaysBeforeMonth(d[1], d[2]) + d[3]

\* the calendar day after d
NextDay(d) ==
    IF d[3] < DaysInMonth(d[1], d[2]) THEN <<d[1], d[2], d[3] + 1>>
    ELSE IF d[2] < 12 THEN <<d[1], d[2] + 1, 1>>
    ELSE <<d[1] + 1, 1, 1>>

Pow10(k) == IF k = 0 THEN 1 ELSE IF k = 1 THEN 10 ELSE IF k = 2 THEN 100 ELSE 1000

\* n in decimal, zero-padded to w characters
Pad(n, w) == [i \in 1..w |-> DigitChars[((n \div Pow10(w - i)) % 10) + 1]]

\* strftime("%Y-%m-%d")
strftime_date(d) == Pad(d[1], 4) \o <<"-">> \o Pad(d[2], 2) \o <<"-">> \o Pad(d[3], 2)

\* strftime("%H:%M")
strftime_time(minute) == Pad(minute \div 60, 2) \o <<":">> \o Pad(minute % 60, 2)

\* datetime.strptime(s, "%Y-%m-%d").date()
strptime_date(s) == <<int(SubSeq(s, 1, 4)), int(SubSeq(s, 6, 7)), int(SubSeq(s, 9, 10))>>

(***************************************************************************)
(* Journal entries and chat threads.                                       *)
(***************************************************************************)
Entry(username, date, time, mood, mood_input, journal, reflection, mood_score, tags) ==
    [username |-> username, date |-> date, time |-> time, mood |-> mood,
     mood_input |-> mood_input, journal |-> journal, reflection |-> reflection,
     mood_score |-> mood_score, tags |-> tags]

\* f"{entry_date}_{entry_time}"
chat_id_of(entry_date, entry_time) == entry_date \o <<"_">> \o entry_time

(***************************************************************************)
(* update_streak(), src/v3cla5.py 331-344: the new streak and              *)
(* last_entry_date from the old ones and today's date.                     *)
(***************************************************************************)
\* a gap of any length counted as a consecutive day
update_streak_anygap(old_streak, last, today) ==
    [streak |-> IF last # Null
                THEN (IF toordinal(today) - toordinal(strptime_date(last)) >= 1
                      THEN old_streak + 1 ELSE old_streak)
                ELSE 1,
     last_entry_date |-> strftime_date(today)]

\* a second evaluation on the same day counted as one more day
update_streak_countsameday(old_streak, last, today) ==
    LET days_diff == IF last # Null
                     THEN toordinal(today) - toordinal(strptime_date(last)) ELSE 0
    IN  [streak |-> IF last = Null THEN 1
                    ELSE IF days_diff > 1 THEN 1
                    ELSE old_streak + 1,
         last_entry_date |-> strftime_date(today)]

\* a broken streak reset to 0 in place of 1
update_streak_zero_on_gap(old_streak, last, today) ==
    LET days_diff == IF last # Null
                     THEN toordinal(today) - toordinal(strptime_date(last)) ELSE 0
    IN  [streak |-> IF last = Null THEN 1
                    ELSE IF days_diff = 1 THEN old_streak + 1
                    ELSE IF days_diff > 1 THEN 0
                    ELSE old_streak,
         last_entry_date |-> strftime_date(today)]

update_streak(old_streak, last, today) ==
    [streak |->
        IF last # Null THEN
            LET last_date == strptime_date(last)
                days_diff == toordinal(today) - toordinal(last_date)
            IN  IF days_diff = 1 THEN old_streak + 1
                ELSE IF days_diff > 1 THEN 1
                ELSE old_streak
        ELSE 1,
     last_entry_date |-> strftime_date(today)]

(***************************************************************************)
(* st.session_state.chats: a dict, kept in insertion order, as a sequence  *)
(* of [chat_id, messages] with no chat_id twice.                           *)
(***************************************************************************)
ChatIds(d) == {d[i].chat_id : i \in 1..Len(d)}

ChatIndex(d, id) == CHOOSE i \in 1..Len(d) : d[i].chat_id = id

ChatGet(d, id) == d[ChatIndex(d, id)].messages

\* d[id] = messages
ChatSet(d, id, messages) ==
    IF id \in ChatIds(d)
    THEN [d EXCEPT ![ChatIndex(d, id)].messages = messages]
    ELSE Append(d, [chat_id |-> id, messages |-> messages])

(***************************************************************************)
(* The document store.  A collection is the sequence of its documents in   *)
(* insertion order; a chat document written by an upsert whose filter      *)
(* names no username has username None.                                    *)
(***************************************************************************)
hash_password(password) == <<"sha256", password>>

ChatDoc(username, id, messages) ==
    [username |-> username, chat_id |-> id, messages |-> messages]

Matches(doc, flt) == \A k \in DOMAIN flt : doc[k] = flt[k]

\* collection.delete_many(flt)
delete_many(coll, flt) == SelectSeq(coll, LAMBDA doc : ~Matches(doc, flt))

\* db.chats.update_one(flt, {"$set": set}, upsert=True): the first matching
\* document gets the fields of set; with no match a document of flt and set
\* is inserted
update_one_upsert(coll, flt, set) ==
    LET hits == {i \in 1..Len(coll) : Matches(coll[i], flt)}
        merged(doc) == [k \in DOMAIN doc |-> IF k \in DOMAIN set THEN set[k] ELSE doc[k]]
    IN  IF hits # {}
        THEN LET i == CHOOSE j \in hits : \A k \in hits : j <= k
             IN  [coll EXCEPT ![i] = merged(coll[i])]
        ELSE Append(coll, merged([ChatDoc(None, Null, <<>>) EXCEPT
                                     !.chat_id = flt.chat_id,
                                     !.username = IF "username" \in DOMAIN flt
                                                  THEN flt.username ELSE None]))

\* a load that scores every entry afresh
load_journal_entries_rescored(coll, user) ==
    LET found == SelectSeq(coll, LAMBDA doc : doc.username = user)
    IN  [i \in 1..Len(found) |-> [found[i] EXCEPT !.mood_score = 5]]

\* load_journal_entries(), src/v3cla5.py 287-297
load_journal_entries(coll, user) == SelectSeq(coll, LAMBDA doc : doc.username = user)

\* load_chats(), src/v3cla5.py 308-318
RECURSIVE load_chats_from(_, _)
load_chats_from(docs, acc) ==
    IF Len(docs) = 0 THEN acc
    ELSE load_chats_from(Tail(docs), ChatSet(acc, docs[1].chat_id, docs[1].messages))

load_chats(coll, user) ==
    load_chats_from(SelectSeq(coll, LAMBDA doc : doc.username = user), <<>>)

\* a save that deletes nothing and adds the entries the store lacks
save_journal_entries_merge(coll, entries, user, is_logged_in) ==
    IF Len(entries) > 0 /\ is_logged_in
    THEN coll \o SelectSeq(entries, LAMBDA e : \A k \in 1..Len(coll) : coll[k] # e)
    ELSE coll

\* save_journal_entries(), src/v3cla5.py 299-306
save_journal_entries(coll, entries, user, is_logged_in) ==
    IF Len(entries) > 0 /\ is_logged_in
    THEN delete_many(coll, [username |-> user]) \o entries
    ELSE coll

\* save_chats(), src/v3cla5.py 320-328
save_chats(coll, d, user, is_logged_in) ==
    IF Len(d) > 0 /\ is_logged_in
    THEN delete_many(coll, [username |-> user])
         \o [i \in 1..Len(d) |-> ChatDoc(user, d[i].chat_id, d[i].messages)]
    ELSE coll

\* the storage operations a save performs: delete_many and insert_many
save_journal_entries_ops(entries, is_logged_in) ==
    IF Len(entries) > 0 /\ is_logged_in THEN 2 ELSE 0

\* one insert for all the chats
save_chats_ops_bulk(d, is_logged_in) ==
    IF Len(d) > 0 /\ is_logged_in THEN 2 ELSE 0

\* the storage operations a save performs: delete_many and an insert_one
\* per chat
save_chats_ops(d, is_logged_in) ==
    IF Len(d) > 0 /\ is_logged_in THEN 1 + Len(d) ELSE 0

\* collection.delete_one(flt): the first matching document goes
delete_one(coll, flt) ==
    LET hits == {i \in 1..Len(coll) : Matches(coll[i], flt)}
    IN  IF hits = {} THEN coll
        ELSE LET i == CHOOSE j \in hits : \A k \in hits : j <= k
             IN  SubSeq(coll, 1, i - 1) \o SubSeq(coll, i + 1, Len(coll))

\* del d[id]
ChatDel(d, id) == SelectSeq(d, LAMBDA c : c.chat_id # id)

(***************************************************************************)
(* A save against a store that may fail.  A fault names the operation that *)
(* raises and how many documents the inserts stored before it:             *)
(*   none         every operation succeeds                                 *)
(*   delete_many  delete_many raises and deletes nothing                   *)
(*   insert       delete_many succeeds; the insert raises after `done`     *)
(*                documents (insert_many is ordered, save_chats inserts    *)
(*                one document per chat)                                   *)
(* The except clause of each save calls st.error and returns.              *)
(***************************************************************************)
NoFault == [at |-> "none", done |-> 0]

Faults(n) ==
    {NoFault, [at |-> "delete_many", done |-> 0]}
    \cup {[at |-> "insert", done |-> k] : k \in 0..(n - 1)}

\* what the try block leaves in the collection when it is to store docs
save_under_fault(coll, docs, user, fault) ==
    IF fault.at = "delete_many" THEN coll
    ELSE IF fault.at = "insert"
    THEN delete_many(coll, [username |-> user]) \o SubSeq(docs, 1, fault.done)
    ELSE delete_many(coll, [username |-> user]) \o docs

\* save_journal_entries(), src/v3cla5.py 299-306, under a fault
save_journal_entries_outcome(coll, entries, user, is_logged_in, fault) ==
    IF Len(entries) > 0 /\ is_logged_in
    THEN [coll |-> save_under_fault(coll, entries, user, fault),
          error_shown |-> fault.at # "none", raised |-> FALSE]
    ELSE [coll |-> coll, error_shown |-> FALSE, raised |-> FALSE]

\* save_chats(), src/v3cla5.py 320-328, under a fault
save_chats_outcome(coll, d, user, is_logged_in, fault) ==
    IF Len(d) > 0 /\ is_logged_in
    THEN [coll |-> save_under_fault(coll,
                       [i \in 1..Len(d) |-> ChatDoc(user, d[i].chat_id, d[i].messages)],
                       user, fault),
          error_shown |-> fault.at # "none", raised |-> FALSE]
    ELSE [coll |-> coll, error_shown |-> FALSE, raised |-> FALSE]

(***************************************************************************)
(* The session.  Init is the state after the script's first run            *)
(* (src/v3cla5.py 30-34 and 267-285) against a database that already holds *)
(* two registered users.                                                   *)
(***************************************************************************)
Usernames == {"alice", "bob"}

PasswordOf(u) == IF u = "alice" THEN "alice-secret" ELSE "bob-secret"

Passwords == {PasswordOf(u) : u \in Usernames}

RegisteredUsers ==
    <<[username |-> "alice", password |-> hash_password(PasswordOf("alice"))],
      [username |-> "bob", password |-> hash_password(PasswordOf("bob"))]>>

\* the day before a leap day, and the last days of a year
StartDates == {<<2024, 2, 28>>, <<2023, 12, 30>>}

SessionStartDates == {<<2024, 2, 28>>}

START_MINUTE == 9 * 60 + 59

RECURSIVE DaysAfter(_, _)
DaysAfter(d, k) == IF k = 0 THEN d ELSE NextDay(DaysAfter(d, k - 1))

ClockDates(starts, maxdays) == {DaysAfter(d, k) : d \in starts, k \in 0..maxdays}

SessionInit ==
    /\ logged_in = FALSE
    /\ current_user = None
    /\ journal_entries = <<>>
    /\ mood_scores = <<>>
    /\ streak = 0
    /\ last_entry_date = Null
    /\ current_view = "journal"
    /\ chat_history = <<>>
    /\ current_chat_id = Null
    /\ chats = <<>>
    /\ chat_ref = Null
    /\ submission_days = {}

StoreInit ==
    /\ db_users = RegisteredUsers
    /\ db_journal_entries = <<>>
    /\ db_chats = <<>>

session_vars == <<logged_in, current_user, journal_entries, mood_scores, streak,
                  last_entry_date, current_view, chat_history, current_chat_id,
                  chats, chat_ref, submission_days>>

store_vars == <<db_users, db_journal_entries, db_chats>>

\* the sign-up requests of other visitors that may be in flight, none started
SignupRequests == {"first", "second"}

NoSignups == [r \in SignupRequests |-> [pc |-> "idle"]]

\* the second session before its first login: the fields of its own
\* st.session_state (src/v3cla5.py 30-34 and 267-285) that reach the store
TabInit ==
    [logged_in |-> FALSE, current_user |-> None, journal_entries |-> <<>>,
     chats |-> <<>>]

\* a connected database, no sign-up in flight, no second session in use
AuxInit ==
    /\ db_connected = TRUE
    /\ signups = NoSignups
    /\ tab = TabInit

aux_vars == <<db_connected, signups, tab>>

\* the last matching document returned in place of the first
find_user_last(coll, username) ==
    LET hits == SelectSeq(coll, LAMBDA doc : doc.username = username)
    IN  IF Len(hits) = 0 THEN <<>> ELSE <<hits[Len(hits)]>>

\* db.users.find_one({"username": username})
\* (the documents found: none, or the first match alone)
find_user(coll, username) ==
    LET hits == SelectSeq(coll, LAMBDA doc : doc.username = username)
    IN  IF Len(hits) = 0 THEN <<>> ELSE <<hits[1]>>

\* the login form's handler, src/v3cla5.py 78-92
Login(username, password) ==
    /\ ~logged_in
    /\ LET user == IF db_connected THEN find_user(db_users, username) ELSE <<>>
           ok == db_connected /\ Len(user) > 0
                 /\ user[1].password = hash_password(password)
       IN  /\ logged_in' = (IF ok THEN TRUE ELSE logged_in)
           /\ current_user' = (IF ok THEN username ELSE current_user)
           /\ journal_entries' = (IF ok THEN load_journal_entries(db_journal_entries, username)
                                  ELSE journal_entries)
           /\ chats' = (IF ok THEN load_chats(db_chats, username) ELSE chats)
           \* the dict is a new one: chat_history is no longer one of its lists
           /\ chat_ref' = (IF ok THEN Null ELSE chat_ref)
           /\ ev' = [op |-> "login", username |-> username, password |-> password,
                     message |-> IF ok THEN "Welcome back"
                                 ELSE IF db_connected THEN "Invalid username or password."
                                 ELSE "Database not connected."]
    /\ UNCHANGED <<mood_scores, streak, last_entry_date, current_view, chat_history,
                   current_chat_id, submission_days, store_vars, now>>

(***************************************************************************)
(* create_user and the sign-up form's handler, src/v3cla5.py 51-63 and     *)
(* 103-114.  The optional email is left empty, so no email field is        *)
(* stored.                                                                 *)
(***************************************************************************)
MIN_PASSWORD_LENGTH == 6

UserDoc(username, password) == [username |-> username, password |-> hash_password(password)]

\* db.users.find_one({"username": username}) is truthy: the pre-check
create_user_exists(coll, username) == Len(find_user(coll, username)) > 0

\* the insert made only when the collection still holds no such username
create_user_insert_if_absent(coll, username, password) ==
    IF create_user_exists(coll, username) THEN coll
    ELSE Append(coll, UserDoc(username, password))

\* db.users.insert_one(user_data)
create_user_insert(coll, username, password) == Append(coll, UserDoc(username, password))

\* the pre-check left out: every call inserts
create_user_nocheck(coll, username, password) ==
    [coll |-> create_user_insert(coll, username, password),
     success |-> TRUE, message |-> "User created successfully"]

\* create_user(username, password) run without interruption
create_user(coll, username, password) ==
    IF create_user_exists(coll, username)
    THEN [coll |-> coll, success |-> FALSE, message |-> "Username already exists"]
    ELSE [coll |-> create_user_insert(coll, username, password),
          success |-> TRUE, message |-> "User created successfully"]

\* the length test left out
signup_error_nolength(new_password, confirm_password) ==
    IF new_password # confirm_password THEN "Passwords don't match!" ELSE ""

\* the form's own checks: the error shown, or "" when create_user is called
signup_error(new_password, confirm_password) ==
    IF new_password # confirm_password THEN "Passwords don't match!"
    ELSE IF Len(new_password) < MIN_PASSWORD_LENGTH
    THEN "Password must be at least 6 characters long."
    ELSE ""

\* the Sign Up button in this session, src/v3cla5.py 103-114, create_user
\* running without interruption; with db None create_user raises on db.users
SignUp(new_username, new_password, confirm_password) ==
    /\ ~logged_in
    /\ LET error == signup_error(new_password, confirm_password)
           called == error = ""
           raised == called /\ ~db_connected
           created == create_user(db_users, new_username, new_password)
       IN  /\ db_users' = (IF called /\ ~raised THEN created.coll ELSE db_users)
           /\ ev' = [op |-> "signup", username |-> new_username,
                     password |-> new_password, confirm |-> confirm_password,
                     before |-> db_users, called |-> called, raised |-> raised,
                     success |-> called /\ ~raised /\ created.success,
                     message |-> IF ~called THEN error
                                 ELSE IF raised THEN "AttributeError"
                                 ELSE created.message]
    /\ UNCHANGED <<session_vars, db_journal_entries, db_chats, now>>

\* another visitor presses Sign Up: the form's checks and create_user up to
\* and including its find_one (the database is connected)
SignUpCheck(r, new_username, new_password, confirm_password) ==
    /\ signups[r].pc = "idle"
    /\ LET error == signup_error(new_password, confirm_password)
           exists == create_user_exists(db_users, new_username)
       IN  signups' = [signups EXCEPT ![r] =
               IF error # ""
               THEN [pc |-> "done", username |-> new_username,
                     password |-> new_password, success |-> FALSE, message |-> error]
               ELSE IF exists
               THEN [pc |-> "done", username |-> new_username,
                     password |-> new_password, success |-> FALSE,
                     message |-> "Username already exists"]
               ELSE [pc |-> "checked", username |-> new_username,
                     password |-> new_password]]
    /\ ev' = [op |-> "signup_check", request |-> r]
    /\ UNCHANGED <<session_vars, store_vars, db_connected, tab, now>>

\* that visitor's create_user goes on: insert_one, and success is reported
SignUpInsert(r) ==
    /\ signups[r].pc = "checked"
    /\ db_users' = create_user_insert(db_users, signups[r].username, signups[r].password)
    /\ signups' = [signups EXCEPT ![r] =
                      [pc |-> "done", username |-> signups[r].username,
                       password |-> signups[r].password, success |-> TRUE,
                       message |-> "User created successfully"]]
    /\ ev' = [op |-> "signup_insert", request |-> r]
    /\ UNCHANGED <<session_vars, db_journal_entries, db_chats, db_connected, tab, now>>

\* a Logout that also resets the streak and its date
Logout_resets_streak ==
    /\ logged_in
    /\ logged_in' = FALSE
    /\ current_user' = None
    /\ streak' = 0
    /\ last_entry_date' = Null
    /\ ev' = [op |-> "other"]
    /\ UNCHANGED <<journal_entries, mood_scores, current_view,
                   chat_history, current_chat_id, chats, chat_ref, submission_days,
                   store_vars, now>>

\* the sidebar's Logout button, src/v3cla5.py 1076-1080
Logout ==
    /\ logged_in
    /\ logged_in' = FALSE
    /\ current_user' = None
    /\ ev' = [op |-> "other"]
    /\ UNCHANGED <<journal_entries, mood_scores, streak, last_entry_date, current_view,
                   chat_history, current_chat_id, chats, chat_ref, submission_days,
                   store_vars, now>>

\* the seed of a reflection missing: the entry context alone
initial_chat_context_only(mood_selection, mood_input, journal_input, reflection) ==
    <<Msg("user", <<"Mood: ", mood_selection, "\n\nMood notes: ">> \o mood_input
                  \o <<"\n\nJournal entry: ">> \o journal_input)>>

\* the two messages a new thread starts with, src/v3cla5.py 1262-1271
initial_chat_of(mood_selection, mood_input, journal_input, reflection) ==
    <<Msg("user", <<"Mood: ", mood_selection, "\n\nMood notes: ">> \o mood_input
                  \o <<"\n\nJournal entry: ">> \o journal_input),
      Msg("assistant", reflection)>>

\* the journal view's "Get AI Reflection" button, src/v3cla5.py 1200-1303
Submit(mood_selection, mood_input, journal_input, selected_tags, resp_mood, resp_reflect) ==
    /\ logged_in
    /\ current_view = "journal"
    /\ mood_input # <<>> \/ journal_input # <<>>
    /\ LET score == score_block(mood_selection, journal_input, resp_mood)
           reflection == get_ai_reflection(mood_input, journal_input, resp_reflect)
           entry_date == strftime_date(now.date)
           entry_time == strftime_time(now.minute)
           new_entry == Entry(current_user, entry_date, entry_time, mood_selection,
                              mood_input, journal_input, reflection.ret,
                              score.mood_score, selected_tags)
           db_inserted == Append(db_journal_entries, new_entry)
           entries == Append(journal_entries, new_entry)
           updated == update_streak(streak, last_entry_date, now.date)
           chat_id == chat_id_of(entry_date, entry_time)
           initial_chat == initial_chat_of(mood_selection, mood_input, journal_input,
                                           reflection.ret)
           new_chats == ChatSet(chats, chat_id, initial_chat)
           db_upserted == update_one_upsert(db_chats,
                              [chat_id |-> chat_id, username |-> current_user],
                              [username |-> current_user, messages |-> initial_chat])
       IN  /\ journal_entries' = entries
           /\ mood_scores' = Append(mood_scores, score.mood_score)
           /\ streak' = updated.streak
           /\ last_entry_date' = updated.last_entry_date
           /\ current_chat_id' = chat_id
           /\ chats' = new_chats
           /\ chat_history' = initial_chat
           /\ chat_ref' = chat_id
           /\ db_journal_entries' =
                  save_journal_entries(db_inserted, entries, current_user, logged_in)
           /\ db_chats' = save_chats(db_upserted, new_chats, current_user, logged_in)
           /\ submission_days' = submission_days \cup {now.date}
           /\ ev' = [op |-> "submit", entry |-> new_entry, chat_id |-> chat_id,
                     mood_requests |-> score.requests,
                     reflection_request |-> reflection.request,
                     old_streak |-> streak, old_last_entry_date |-> last_entry_date,
                     today |-> now.date,
                     remote_calls |-> Len(score.requests) + 1,
                     storage_ops |-> 2 + save_journal_entries_ops(entries, logged_in)
                                       + save_chats_ops(new_chats, logged_in)]
    /\ UNCHANGED <<logged_in, current_user, current_view, db_users, now>>

\* the login form's handler run by the second session, src/v3cla5.py 78-92
TabLogin(username, password) ==
    /\ ~tab.logged_in
    /\ LET user == IF db_connected THEN find_user(db_users, username) ELSE <<>>
           ok == db_connected /\ Len(user) > 0
                 /\ user[1].password = hash_password(password)
       IN  tab' = IF ok
                  THEN [tab EXCEPT !.logged_in = TRUE, !.current_user = username,
                                   !.journal_entries =
                                       load_journal_entries(db_journal_entries, username),
                                   !.chats = load_chats(db_chats, username)]
                  ELSE tab
    /\ ev' = [op |-> "tab_login", username |-> username]
    /\ UNCHANGED <<session_vars, store_vars, db_connected, signups, now>>

\* the journal view's "Get AI Reflection" button pressed in the second
\* session, src/v3cla5.py 1200-1303: what it does to that session's entries
\* and chats and to the store (no storage operation fails, so no
\* "Error saving" message is shown)
TabSubmit(mood_selection, mood_input, journal_input, selected_tags, resp_mood, resp_reflect) ==
    /\ tab.logged_in
    /\ mood_input # <<>> \/ journal_input # <<>>
    /\ LET score == score_block(mood_selection, journal_input, resp_mood)
           reflection == get_ai_reflection(mood_input, journal_input, resp_reflect)
           entry_date == strftime_date(now.date)
           entry_time == strftime_time(now.minute)
           new_entry == Entry(tab.current_user, entry_date, entry_time, mood_selection,
                              mood_input, journal_input, reflection.ret,
                              score.mood_score, selected_tags)
           db_inserted == Append(db_journal_entries, new_entry)
           entries == Append(tab.journal_entries, new_entry)
           chat_id == chat_id_of(entry_date, entry_time)
           initial_chat == initial_chat_of(mood_selection, mood_input, journal_input,
                                           reflection.ret)
           new_chats == ChatSet(tab.chats, chat_id, initial_chat)
           db_upserted == update_one_upsert(db_chats,
                              [chat_id |-> chat_id, username |-> tab.current_user],
                              [username |-> tab.current_user, messages |-> initial_chat])
       IN  /\ tab' = [tab EXCEPT !.journal_entries = entries, !.chats = new_chats]
           /\ db_journal_entries' =
                  save_journal_entries(db_inserted, entries, tab.current_user, tab.logged_in)
           /\ db_chats' = save_chats(db_upserted, new_chats, tab.current_user,
                                     tab.logged_in)
           /\ ev' = [op |-> "tab_submit", entry |-> new_entry]
    /\ UNCHANGED <<session_vars, db_users, db_connected, signups, now>>

\* the chat view's Send button, src/v3cla5.py 1340-1369
Send(user_input, resp) ==
    /\ logged_in
    /\ current_view = "chat"
    /\ user_input # <<>>
    /\ LET with_user == Append(chat_history, Msg("user", user_input))
           ai_response == get_ai_response(user_input, with_user, resp)
           with_reply == Append(with_user, Msg("assistant", ai_response.ret))
       IN  /\ chat_history' = with_reply
           \* list.append acts on the list object, which chats may hold too
           /\ chats' = (IF chat_ref # Null THEN ChatSet(chats, chat_ref, with_reply)
                        ELSE chats)
           /\ db_chats' = (IF current_chat_id # Null
                           THEN update_one_upsert(db_chats, [chat_id |-> current_chat_id],
                                                  [messages |-> with_reply])
                           ELSE db_chats)
           /\ ev' = [op |-> "send", message |-> user_input,
                     old_chat_history |-> chat_history,
                     request |-> ai_response.request, reply |-> ai_response.ret,
                     error_shown |-> ai_response.error_shown,
                     remote_calls |-> 1,
                     storage_ops |-> IF current_chat_id # Null THEN 1 ELSE 0]
    /\ UNCHANGED <<logged_in, current_user, journal_entries, mood_scores, streak,
                   last_entry_date, current_view, current_chat_id, chat_ref,
                   submission_days, db_users, db_journal_entries, now>>

\* the chat view's Apply Settings button, src/v3cla5.py 1409-1437
ApplySettings ==
    /\ logged_in
    /\ current_view = "chat"
    /\ LET with_system == Append(chat_history, Msg("system", <<"therapy settings">>))
       IN  /\ chat_history' = with_system
           /\ chats' = (IF chat_ref # Null THEN ChatSet(chats, chat_ref, with_system)
                        ELSE chats)
           /\ db_chats' = (IF current_chat_id # Null
                           THEN update_one_upsert(db_chats, [chat_id |-> current_chat_id],
                                                  [messages |-> with_system])
                           ELSE db_chats)
    /\ ev' = [op |-> "apply", remote_calls |-> 0,
              storage_ops |-> IF current_chat_id # Null THEN 1 ELSE 0]
    /\ UNCHANGED <<logged_in, current_user, journal_entries, mood_scores, streak,
                   last_entry_date, current_view, current_chat_id, chat_ref,
                   submission_days, db_users, db_journal_entries, now>>

\* navigation offered on the login page as well
Navigate_logged_out(view) ==
    /\ view \in {"journal", "chat", "history"}
    /\ current_view' = view
    /\ ev' = [op |-> "other"]
    /\ UNCHANGED <<logged_in, current_user, journal_entries, mood_scores, streak,
                   last_entry_date, chat_history, current_chat_id, chats, chat_ref,
                   submission_days, store_vars, now>>

\* the sidebar's navigation buttons to the journal, chat and history views,
\* src/v3cla5.py 1056-1063
Navigate(view) ==
    /\ logged_in
    /\ view \in {"journal", "chat", "history"}
    /\ current_view' = view
    /\ ev' = [op |-> "other"]
    /\ UNCHANGED <<logged_in, current_user, journal_entries, mood_scores, streak,
                   last_entry_date, chat_history, current_chat_id, chats, chat_ref,
                   submission_days, store_vars, now>>

\* the sidebar's Analytics button and the analytics view it renders,
\* src/v3cla5.py 1060-1061, 1440-1451 and 1523-1527.  With no entries in the
\* session the view tests the truth value of db: a driver that defines it
\* lets the load run, one that raises on it ends the script run there.
OpenAnalytics(resp, db_truth_raises) ==
    /\ logged_in
    /\ current_view' = "analytics"
    /\ LET reload == Len(journal_entries) = 0
           stopped == reload /\ db_truth_raises
           entries == IF reload /\ ~stopped
                      THEN load_journal_entries(db_journal_entries, current_user)
                      ELSE journal_entries
           insights == generate_insights(entries, resp)
       IN  /\ journal_entries' = entries
           /\ ev' = IF stopped
                    THEN [op |-> "analytics", stopped |-> TRUE,
                          remote_calls |-> 0, storage_ops |-> 0]
                    ELSE [op |-> "analytics", stopped |-> FALSE,
                          requests |-> insights.requests, insights |-> insights.ret,
                          error_shown |-> insights.error_shown,
                          remote_calls |-> Len(insights.requests),
                          storage_ops |-> IF reload THEN 1 ELSE 0]
    /\ UNCHANGED <<logged_in, current_user, mood_scores, streak, last_entry_date,
                   chat_history, current_chat_id, chats, chat_ref, submission_days,
                   store_vars, now>>

\* a "Recent Conversations" button of the sidebar, src/v3cla5.py 1066-1074
SelectChat(i) ==
    /\ logged_in
    /\ i \in 1..Len(chats)
    /\ current_chat_id' = chats[i].chat_id
    /\ chat_history' = chats[i].messages
    /\ chat_ref' = chats[i].chat_id
    /\ current_view' = "chat"
    /\ ev' = [op |-> "other"]
    /\ UNCHANGED <<logged_in, current_user, journal_entries, mood_scores, streak,
                   last_entry_date, chats, submission_days, store_vars, now>>

\* a "Continue Conversation" button of the history view, src/v3cla5.py
\* 1709-1730, on the entry at position i of journal_entries.  The button's
\* key holds a fresh uuid4 on every script run (1708); the handler is
\* modelled for the runs in which the click is delivered to it.
ContinueConversation(i) ==
    /\ logged_in
    /\ current_view = "history"
    /\ i \in 1..Len(journal_entries)
    /\ LET entry == journal_entries[i]
           entry_id == chat_id_of(entry.date, entry.time)
           had_chat == entry_id \in ChatIds(chats)
           initial_chat == initial_chat_of(entry.mood, entry.mood_input, entry.journal,
                                           entry.reflection)
           new_chats == IF had_chat THEN chats ELSE ChatSet(chats, entry_id, initial_chat)
       IN  /\ chat_history' = (IF had_chat THEN ChatGet(chats, entry_id) ELSE initial_chat)
           /\ chats' = new_chats
           \* either way chat_history is the list the dict holds
           /\ chat_ref' = entry_id
           /\ db_chats' = (IF had_chat THEN db_chats
                           ELSE save_chats(db_chats, new_chats, current_user, logged_in))
           /\ current_chat_id' = entry_id
           /\ current_view' = "chat"
           /\ ev' = [op |-> "continue", entry |-> entry, chat_id |-> entry_id,
                     created |-> ~had_chat]
    /\ UNCHANGED <<logged_in, current_user, journal_entries, mood_scores, streak,
                   last_entry_date, submission_days, db_users, db_journal_entries, now>>

\* a "Delete Entry" button of the history view, src/v3cla5.py 1733-1746, on
\* the entry at position i of journal_entries.  Every entry carries the _id
\* the store gave it, so list.remove(entry) removes that very entry.
Delete(i) ==
    /\ logged_in
    /\ current_view = "history"
    /\ i \in 1..Len(journal_entries)
    /\ LET entry == journal_entries[i]
           entry_id == chat_id_of(entry.date, entry.time)
           entries == SubSeq(journal_entries, 1, i - 1)
                      \o SubSeq(journal_entries, i + 1, Len(journal_entries))
           had_chat == entry_id \in ChatIds(chats)
           new_chats == IF had_chat THEN ChatDel(chats, entry_id) ELSE chats
           db_deleted == delete_one(db_journal_entries,
                                    [date |-> entry.date, time |-> entry.time,
                                     username |-> current_user])
       IN  /\ journal_entries' = entries
           /\ chats' = new_chats
           \* chat_history may still be the list that left the dict
           /\ chat_ref' = (IF had_chat /\ chat_ref = entry_id THEN Null ELSE chat_ref)
           /\ db_chats' = (IF had_chat
                           THEN save_chats(db_chats, new_chats, current_user, logged_in)
                           ELSE db_chats)
           /\ db_journal_entries' =
                  save_journal_entries(db_deleted, entries, current_user, logged_in)
           /\ ev' = [op |-> "delete", entry |-> entry, chat_id |-> entry_id,
                     position |-> i, old_journal_entries |-> journal_entries,
                     old_chats |-> chats,
                     remote_calls |-> 0,
                     storage_ops |-> (IF had_chat THEN save_chats_ops(new_chats, logged_in)
                                      ELSE 0)
                                     + 1 + save_journal_entries_ops(entries, logged_in)]
    /\ UNCHANGED <<logged_in, current_user, mood_scores, streak, last_entry_date,
                   current_view, chat_history, current_chat_id, submission_days,
                   db_users, now>>

\* the wall clock moves on by a minute, or to the same time on the next day
MinutePasses ==
    /\ now' = [now EXCEPT !.minute = @ + 1]
    /\ UNCHANGED <<session_vars, store_vars, ev>>

DayPasses ==
    /\ now' = [now EXCEPT !.date = NextDay(@)]
    /\ UNCHANGED <<session_vars, store_vars, ev>>

(***************************************************************************)
(* Spec: one session, two registered users.                                *)
(***************************************************************************)
TextResponses == {OkResponse(<<"reply">>), StatusResponse, ExceptionResponse}

SendResponses == {OkResponse(<<"reply">>), ExceptionResponse}

\* the session signs in as one of the registered users
SessionUsers == {"alice", "bob"}

SessionMoods == {"Great"}

SessionMoodResponses == {OkResponse(<<"1", "0">>)}

SessionReflectResponses == {OkResponse(<<"reflection">>), StatusResponse}

ClockInit(starts) == now \in {[date |-> d, minute |-> START_MINUTE] : d \in starts}

Init ==
    /\ SessionInit
    /\ StoreInit
    /\ AuxInit
    /\ ClockInit(SessionStartDates)
    /\ steps = 0
    /\ ev = [op |-> "other"]

\* one more handler run or clock move, while the budget lasts
Step == steps < MaxSteps /\ steps' = steps + 1 /\ UNCHANGED aux_vars

RunLogin == Step /\ \E u \in SessionUsers, p \in Passwords : Login(u, p)

RunLogout == Step /\ Logout

RunSubmit ==
    /\ Step
    /\ \E mood_selection \in SessionMoods, journal_input \in {<<>>, <<"body">>},
          resp_mood \in SessionMoodResponses, resp_reflect \in SessionReflectResponses :
          Submit(mood_selection, <<"notes">>, journal_input, <<>>, resp_mood, resp_reflect)

RunSend == Step /\ \E resp \in SendResponses : Send(<<"hello">>, resp)

RunApplySettings == Step /\ ApplySettings

RunNavigate == Step /\ \E view \in {"journal", "chat", "history"} : Navigate(view)

RunOpenAnalytics ==
    /\ Step
    /\ \E resp \in SendResponses, db_truth_raises \in BOOLEAN :
          OpenAnalytics(resp, db_truth_raises)

RunSelectChat == Step /\ \E i \in 1..Len(chats) : SelectChat(i)

RunDelete == Step /\ \E i \in 1..Len(journal_entries) : Delete(i)

RunMinutePasses == Step /\ MinutePasses

RunDayPasses == Step /\ DayPasses

Next ==
    \/ RunLogin
    \/ RunLogout
    \/ RunSubmit
    \/ RunSend
    \/ RunApplySettings
    \/ RunNavigate
    \/ RunOpenAnalytics
    \/ RunSelectChat
    \/ RunDelete
    \/ RunMinutePasses
    \/ RunDayPasses

Spec == Init /\ [][Next]_vars

(***************************************************************************)
(* SpecStreak: the streak over several days.  One user signs in and        *)
(* submits entries while days pass; two start dates put a leap day and a   *)
(* new year inside the window.                                             *)
(***************************************************************************)
StreakInit ==
    /\ SessionInit
    /\ StoreInit
    /\ AuxInit
    /\ ClockInit(StartDates)
    /\ steps = 0
    /\ ev = [op |-> "other"]

StreakLogin == Login("alice", PasswordOf("alice")) /\ UNCHANGED <<steps, aux_vars>>

StreakLogout == Logout /\ UNCHANGED <<steps, aux_vars>>

StreakSubmit ==
    /\ Len(journal_entries) < MaxStreakEntries
    /\ Submit("Neutral", <<"notes">>, <<>>, <<>>, StatusResponse,
              OkResponse(<<"reflection">>))
    /\ UNCHANGED <<steps, aux_vars>>

StreakDayPasses ==
    /\ NextDay(now.date) \in ClockDates(StartDates, MaxStreakDays)
    /\ DayPasses
    /\ UNCHANGED <<steps, aux_vars>>

StreakNext ==
    \/ StreakLogin
    \/ StreakLogout
    \/ StreakSubmit
    \/ StreakDayPasses

SpecStreak == StreakInit /\ [][StreakNext]_vars

(***************************************************************************)
(* SpecFn: the functions on their own.  Init draws one call and its        *)
(* inputs, in a session that has just signed in as alice against a store   *)
(* holding her entries; each action makes the call and records what it     *)
(* returned.                                                               *)
(***************************************************************************)
ReplyChars == DigitSet \cup {"/", " ", SUPERSCRIPT_TWO}

\* every reply of up to MaxReplyLen characters, and the replies "810" and
\* "Score: 8/10"
Replies ==
    UNION {[1..n -> ReplyChars] : n \in 0..MaxReplyLen}
    \cup {<<"8", "1", "0">>, <<"S", "c", "o", "r", "e", ":", " ", "8", "/", "1", "0">>}

MoodResponses == {OkResponse(t) : t \in Replies} \cup {StatusResponse, ExceptionResponse}

InsightBodies == {<<>>, <<"a">>, <<"b">>}

InsightEntry(i, body) ==
    Entry("alice", strftime_date(<<2024, 2, 28>>), strftime_time(START_MINUTE + i),
          "Neutral", <<"notes">>, body, <<"reflection">>, 5, <<>>)

InsightLists ==
    UNION {{[i \in 1..n |-> InsightEntry(i, bodies[i])] : bodies \in [1..n -> InsightBodies]}
           : n \in 0..MaxInsightEntries}

SeedThread == initial_chat_of("Neutral", <<"notes">>, <<"body">>, <<"reflection">>)

FnCalls ==
    {[op |-> "call", fn |-> "score", mood_selection |-> m, journal_input |-> j, resp |-> r]
        : m \in MoodOptions, j \in {<<>>, <<"body">>}, r \in MoodResponses}
    \cup {[op |-> "call", fn |-> "analyze_mood", resp |-> r] : r \in MoodResponses}
    \cup {[op |-> "call", fn |-> "get_ai_reflection", mood_input |-> mi,
           journal_input |-> j, resp |-> r]
            : mi \in {<<>>, <<"notes">>}, j \in {<<>>, <<"body">>}, r \in TextResponses}
    \cup {[op |-> "call", fn |-> "get_ai_response", message |-> <<"hello">>, history |-> h,
           resp |-> r] : h \in {<<>>, SeedThread}, r \in TextResponses}

FnInit ==
    /\ logged_in = TRUE
    /\ current_user = "alice"
    /\ mood_scores = <<>>
    /\ streak = 0
    /\ last_entry_date = Null
    /\ current_view = "journal"
    /\ chat_history = <<>>
    /\ current_chat_id = Null
    /\ chats = <<>>
    /\ chat_ref = Null
    /\ submission_days = {}
    /\ db_users = RegisteredUsers
    /\ db_chats = <<>>
    /\ AuxInit
    /\ ClockInit(SessionStartDates)
    /\ steps = 0
    /\ \/ /\ journal_entries = <<>>
          /\ ev \in FnCalls
       \/ /\ journal_entries \in InsightLists
          /\ ev \in {[op |-> "call", fn |-> "generate_insights", resp |-> r]
                        : r \in TextResponses}
    /\ db_journal_entries = journal_entries

Called(fn) == ev.op = "call" /\ ev.fn = fn

Returned(fn) == ev.op = "return" /\ ev.fn = fn

FnFrame == UNCHANGED <<session_vars, store_vars, aux_vars, now, steps>>

CallScoreBlock ==
    /\ Called("score")
    /\ ev' = [ev EXCEPT !.op = "return"] @@
             [out |-> score_block(ev.mood_selection, ev.journal_input, ev.resp)]
    /\ FnFrame

CallAnalyzeMood ==
    /\ Called("analyze_mood")
    /\ ev' = [ev EXCEPT !.op = "return"] @@ [out |-> analyze_mood(ev.resp)]
    /\ FnFrame

CallGetAiReflection ==
    /\ Called("get_ai_reflection")
    /\ ev' = [ev EXCEPT !.op = "return"] @@
             [out |-> get_ai_reflection(ev.mood_input, ev.journal_input, ev.resp)]
    /\ FnFrame

CallGetAiResponse ==
    /\ Called("get_ai_response")
    /\ ev' = [ev EXCEPT !.op = "return"] @@
             [out |-> get_ai_response(ev.message, ev.history, ev.resp)]
    /\ FnFrame

CallGenerateInsights ==
    /\ Called("generate_insights")
    /\ ev' = [ev EXCEPT !.op = "return"] @@
             [out |-> generate_insights(journal_entries, ev.resp)]
    /\ FnFrame

FnNext ==
    \/ CallScoreBlock
    \/ CallAnalyzeMood
    \/ CallGetAiReflection
    \/ CallGetAiResponse
    \/ CallGenerateInsights

SpecFn == FnInit /\ [][FnNext]_vars

(***************************************************************************)
(* SpecStore: the two saves on their own.  Init draws what alice's session *)
(* holds in memory, what the collection holds (bob's document and some of  *)
(* alice's), and the fault; each action runs the save.                     *)
(***************************************************************************)
SavedEntry(i) ==
    Entry("alice", strftime_date(<<2024, 2, 28>>), strftime_time(START_MINUTE + i),
          "Neutral", <<"notes">>, <<"body">>, <<"reflection">>, 5, <<>>)

OthersEntry ==
    Entry("bob", strftime_date(<<2024, 2, 28>>), strftime_time(START_MINUTE),
          "Good", <<"notes">>, <<>>, <<"reflection">>, 7, <<>>)

\* lists of up to MaxSavedDocs of alice's entries
EntryLists ==
    UNION {[1..n -> {SavedEntry(i) : i \in 1..MaxSavedDocs}] : n \in 0..MaxSavedDocs}

SavedChatId(i) == chat_id_of(strftime_date(<<2024, 2, 28>>), strftime_time(START_MINUTE + i))

\* chats dicts of up to MaxSavedDocs threads
ChatMaps ==
    {[i \in 1..n |-> [chat_id |-> SavedChatId(i), messages |-> SeedThread]]
        : n \in 0..MaxSavedDocs}
    \cup {[i \in 1..n |-> [chat_id |-> SavedChatId(i),
                            messages |-> Append(SeedThread, Msg("user", <<"hello">>))]]
            : n \in 1..MaxSavedDocs}

StoreCallInit ==
    /\ logged_in = TRUE
    /\ current_user = "alice"
    /\ mood_scores = <<>>
    /\ streak = 0
    /\ last_entry_date = Null
    /\ current_view = "history"
    /\ chat_history = <<>>
    /\ current_chat_id = Null
    /\ chat_ref = Null
    /\ submission_days = {}
    /\ db_users = RegisteredUsers
    /\ AuxInit
    /\ ClockInit(SessionStartDates)
    /\ steps = 0
    /\ \/ /\ journal_entries \in EntryLists
          /\ db_journal_entries \in {<<OthersEntry>> \o stored : stored \in EntryLists}
          /\ chats = <<>>
          /\ db_chats = <<>>
          /\ ev \in {[op |-> "call", fn |-> "save_journal_entries", fault |-> f]
                        : f \in Faults(Len(journal_entries))}
       \/ /\ chats \in ChatMaps
          /\ db_chats \in {<<ChatDoc("bob", SavedChatId(1), SeedThread)>>
                             \o [i \in 1..Len(stored) |->
                                    ChatDoc("alice", stored[i].chat_id, stored[i].messages)]
                                : stored \in ChatMaps}
          /\ journal_entries = <<>>
          /\ db_journal_entries = <<>>
          /\ ev \in {[op |-> "call", fn |-> "save_chats", fault |-> f]
                        : f \in Faults(Len(chats))}

CallSaveJournalEntries ==
    /\ Called("save_journal_entries")
    /\ LET out == save_journal_entries_outcome(db_journal_entries, journal_entries,
                                               current_user, logged_in, ev.fault)
       IN  /\ db_journal_entries' = out.coll
           /\ ev' = [ev EXCEPT !.op = "return"] @@
                    [before |-> db_journal_entries, error_shown |-> out.error_shown,
                     raised |-> out.raised]
    /\ UNCHANGED <<session_vars, db_users, db_chats, aux_vars, now, steps>>

CallSaveChats ==
    /\ Called("save_chats")
    /\ LET out == save_chats_outcome(db_chats, chats, current_user, logged_in, ev.fault)
       IN  /\ db_chats' = out.coll
           /\ ev' = [ev EXCEPT !.op = "return"] @@
                    [before |-> db_chats, error_shown |-> out.error_shown,
                     raised |-> out.raised]
    /\ UNCHANGED <<session_vars, db_users, db_journal_entries, aux_vars, now, steps>>

StoreNext ==
    \/ CallSaveJournalEntries
    \/ CallSaveChats

SpecStore == StoreCallInit /\ [][StoreNext]_vars

(***************************************************************************)
(* SpecSignup: the login page of one session; every handler runs without   *)
(* interruption.  The database is connected or not, for the whole run.     *)
(***************************************************************************)
NewUsernames == {"carol", "dave"}

\* a password of five characters, one of six, and longer ones
SignupPasswords == {"short", "secret", "carol-secret"}

StoredEntry == SavedEntry(1)

StoredThread == ChatDoc("alice", SavedChatId(1), SeedThread)

\* a store that holds an entry and a thread of alice
AuthStoreInit ==
    /\ db_users = RegisteredUsers
    /\ db_journal_entries = <<StoredEntry>>
    /\ db_chats = <<StoredThread>>

SignupInit ==
    /\ SessionInit
    /\ AuthStoreInit
    /\ db_connected \in BOOLEAN
    /\ signups = NoSignups
    /\ tab = TabInit
    /\ ClockInit(SessionStartDates)
    /\ steps = 0
    /\ ev = [op |-> "other"]

AuthFrame == UNCHANGED <<steps, aux_vars>>

SignupSignUp ==
    /\ \E u \in NewUsernames \cup {"alice"}, p, c \in SignupPasswords : SignUp(u, p, c)
    /\ AuthFrame

SignupLogin ==
    /\ \E u \in NewUsernames \cup {"alice"},
          p \in SignupPasswords \cup {PasswordOf("alice")} : Login(u, p)
    /\ AuthFrame

SignupLogout == Logout /\ AuthFrame

SignupNext ==
    \/ SignupSignUp
    \/ SignupLogin
    \/ SignupLogout

SpecSignup == SignupInit /\ [][SignupNext]_vars

(***************************************************************************)
(* SpecAuth: the login page of one session while two other visitors sign   *)
(* up, each once; their create_user calls interleave between find_one and  *)
(* insert_one.                                                             *)
(***************************************************************************)
RacePasswords == {"carol-secret", "carol-other"}

AuthInit ==
    /\ SessionInit
    /\ AuthStoreInit
    /\ db_connected \in BOOLEAN
    /\ signups = NoSignups
    /\ tab = TabInit
    /\ ClockInit(SessionStartDates)
    /\ steps = 0
    /\ ev = [op |-> "other"]

AuthSignUpCheck ==
    /\ db_connected
    /\ \E r \in SignupRequests, u \in {"carol", "alice"}, p \in RacePasswords :
          SignUpCheck(r, u, p, p)
    /\ UNCHANGED steps

AuthSignUpInsert ==
    /\ \E r \in SignupRequests : SignUpInsert(r)
    /\ UNCHANGED steps

AuthLogin ==
    /\ \E u \in {"carol", "alice", "dave"},
          p \in RacePasswords \cup {PasswordOf("alice")} : Login(u, p)
    /\ AuthFrame

AuthLogout == Logout /\ AuthFrame

AuthNext ==
    \/ AuthSignUpCheck
    \/ AuthSignUpInsert
    \/ AuthLogin
    \/ AuthLogout

SpecAuth == AuthInit /\ [][AuthNext]_vars

(***************************************************************************)
(* SpecTabs: two sessions of the same deployment, two browser tabs, both   *)
(* used by alice.  Handlers of the two sessions interleave run by run.     *)
(***************************************************************************)
TabsInit ==
    /\ SessionInit
    /\ StoreInit
    /\ AuxInit
    /\ ClockInit(SessionStartDates)
    /\ steps = 0
    /\ ev = [op |-> "other"]

TabsLogin ==
    /\ Login("alice", PasswordOf("alice"))
    /\ UNCHANGED <<steps, aux_vars>>

TabsSubmit ==
    /\ Len(journal_entries) < MaxTabEntries
    /\ \E resp_reflect \in SessionReflectResponses :
          Submit("Great", <<"notes">>, <<"body">>, <<>>, OkResponse(<<"1", "0">>),
                 resp_reflect)
    /\ UNCHANGED <<steps, aux_vars>>

TabsTabLogin ==
    /\ TabLogin("alice", PasswordOf("alice"))
    /\ UNCHANGED steps

TabsTabSubmit ==
    /\ Len(tab.journal_entries) < MaxTabEntries
    /\ \E resp_reflect \in SessionReflectResponses :
          TabSubmit("Low", <<"notes in the other tab">>, <<>>, <<>>,
                    OkResponse(<<"1", "0">>), resp_reflect)
    /\ UNCHANGED steps

TabsMinutePasses ==
    /\ now.minute < START_MINUTE + 1
    /\ MinutePasses
    /\ UNCHANGED <<steps, aux_vars>>

TabsNext ==
    \/ TabsLogin
    \/ TabsSubmit
    \/ TabsTabLogin
    \/ TabsTabSubmit
    \/ TabsMinutePasses

SpecTabs == TabsInit /\ [][TabsNext]_vars

(***************************************************************************)
(* SpecChat: one browser session used by alice within two minutes of one   *)
(* day: logins and logouts, submissions, the chat view, the sidebar's      *)
(* conversations and the history view's buttons.                           *)
(***************************************************************************)
MaxChatSubmissions == 2

MaxThreadLen == 4

ChatSpecInit ==
    /\ SessionInit
    /\ StoreInit
    /\ AuxInit
    /\ ClockInit(SessionStartDates)
    /\ steps = 0
    /\ ev = [op |-> "other"]

ChatFrame == UNCHANGED <<steps, aux_vars>>

ChatLogin == ChatFrame /\ Login("alice", PasswordOf("alice"))

ChatLogout == ChatFrame /\ Logout

ChatSubmit ==
    /\ ChatFrame
    /\ Len(mood_scores) < MaxChatSubmissions
    /\ Submit("Great", <<"notes">>, <<>>, <<>>, StatusResponse,
              OkResponse(<<"reflection">>))

ChatSend ==
    /\ ChatFrame
    /\ Len(chat_history) + 2 <= MaxThreadLen
    /\ Send(<<"hello">>, OkResponse(<<"reply">>))

ChatApplySettings ==
    /\ ChatFrame
    /\ Len(chat_history) + 1 <= MaxThreadLen
    /\ ApplySettings

ChatNavigate == ChatFrame /\ \E view \in {"journal", "chat", "history"} : Navigate(view)

ChatSelectChat == ChatFrame /\ \E i \in 1..Len(chats) : SelectChat(i)

ChatContinueConversation ==
    ChatFrame /\ \E i \in 1..Len(journal_entries) : ContinueConversation(i)

ChatDelete == ChatFrame /\ \E i \in 1..Len(journal_entries) : Delete(i)

ChatMinutePasses ==
    /\ ChatFrame
    /\ now.minute < START_MINUTE + 1
    /\ MinutePasses

ChatNext ==
    \/ ChatLogin
    \/ ChatLogout
    \/ ChatSubmit
    \/ ChatSend
    \/ ChatApplySettings
    \/ ChatNavigate
    \/ ChatSelectChat
    \/ ChatContinueConversation
    \/ ChatDelete
    \/ ChatMinutePasses

SpecChat == ChatSpecInit /\ [][ChatNext]_vars

(***************************************************************************)
(* SpecGate: the login page and the pages behind it in one session.  A     *)
(* visitor signs up or logs in; once logged in the user submits, chats,    *)
(* deletes and logs out.                                                   *)
(***************************************************************************)
MaxGateSubmissions == 1

GateInit ==
    /\ SessionInit
    /\ StoreInit
    /\ AuxInit
    /\ ClockInit(SessionStartDates)
    /\ steps = 0
    /\ ev = [op |-> "other"]

GateFrame == UNCHANGED <<steps, aux_vars>>

GateSignUp ==
    /\ GateFrame
    /\ \E c \in {"short", "carol-secret"} : SignUp("carol", "carol-secret", c)

GateLogin ==
    /\ GateFrame
    /\ \/ Login("alice", PasswordOf("alice"))
       \/ Login("carol", "carol-secret")

GateLogout == GateFrame /\ Logout

GateSubmit ==
    /\ GateFrame
    /\ Len(mood_scores) < MaxGateSubmissions
    /\ Submit("Great", <<"notes">>, <<"body">>, <<>>, OkResponse(<<"1", "0">>),
              OkResponse(<<"reflection">>))

GateSend ==
    /\ GateFrame
    /\ Len(chat_history) + 2 <= MaxThreadLen
    /\ Send(<<"hello">>, ExceptionResponse)

GateApplySettings ==
    /\ GateFrame
    /\ Len(chat_history) + 1 <= MaxThreadLen
    /\ ApplySettings

GateNavigate == GateFrame /\ \E view \in {"journal", "chat", "history"} : Navigate(view)

GateOpenAnalytics ==
    /\ GateFrame
    /\ OpenAnalytics(OkResponse(<<"reply">>), FALSE)

GateSelectChat == GateFrame /\ \E i \in 1..Len(chats) : SelectChat(i)

GateDelete == GateFrame /\ \E i \in 1..Len(journal_entries) : Delete(i)

GateNext ==
    \/ GateSignUp
    \/ GateLogin
    \/ GateLogout
    \/ GateSubmit
    \/ GateSend
    \/ GateApplySettings
    \/ GateNavigate
    \/ GateOpenAnalytics
    \/ GateSelectChat
    \/ GateDelete

SpecGate == GateInit /\ [][GateNext]_vars

(***************************************************************************)
(* SpecFile: the file-backed revision src/v3cla.py (src/v3cla2.py has the  *)
(* same storage code).  There is no login; every session of the deployment *)
(* reads and writes journal_entries.json and chat_history.json, held here  *)
(* in db_journal_entries and db_chats: the list and the dict last dumped,  *)
(* empty while the file does not exist.  An entry has no username.         *)
(***************************************************************************)
MaxFileEntries == 2

FileEntry(date, time, mood, mood_input, journal, reflection, mood_score, tags) ==
    [date |-> date, time |-> time, mood |-> mood, mood_input |-> mood_input,
     journal |-> journal, reflection |-> reflection, mood_score |-> mood_score,
     tags |-> tags]

\* json.dump(st.session_state.journal_entries, f) and
\* json.dump(st.session_state.chats, f), src/v3cla.py 110-112 and 123-125:
\* the file holds what the session holds, whatever it held before
file_save_journal_entries(file, entries) == entries

file_save_chats(file, d) == d

\* the first run of the script in a new browser session, src/v3cla.py
\* 81-99: every field gets its initial value; load_journal_entries and
\* load_chats (102-121) are defined and never called
FileStartSession ==
    /\ journal_entries' = <<>>
    /\ mood_scores' = <<>>
    /\ streak' = 0
    /\ last_entry_date' = Null
    /\ current_view' = "journal"
    /\ chat_history' = <<>>
    /\ current_chat_id' = Null
    /\ chats' = <<>>
    /\ chat_ref' = Null
    /\ submission_days' = {}
    /\ ev' = [op |-> "file_start", file_entries |-> db_journal_entries,
              file_chats |-> db_chats]
    /\ UNCHANGED <<logged_in, current_user, store_vars, now>>

\* the journal view's "Reflect with AI" button, src/v3cla.py 526-592, with
\* the score and the reflection its remote calls led to
FileSubmit(mood_selection, mood_input, journal_input, selected_tags, mood_score, reflection) ==
    /\ current_view = "journal"
    /\ mood_input # <<>> \/ journal_input # <<>>
    /\ LET entry_date == strftime_date(now.date)
           entry_time == strftime_time(now.minute)
           new_entry == FileEntry(entry_date, entry_time, mood_selection, mood_input,
                                  journal_input, reflection, mood_score, selected_tags)
           entries == Append(journal_entries, new_entry)
           updated == update_streak(streak, last_entry_date, now.date)
           chat_id == chat_id_of(entry_date, entry_time)
           initial_chat == initial_chat_of(mood_selection, mood_input, journal_input,
                                           reflection)
           new_chats == ChatSet(chats, chat_id, initial_chat)
       IN  /\ journal_entries' = entries
           /\ mood_scores' = Append(mood_scores, mood_score)
           /\ streak' = updated.streak
           /\ last_entry_date' = updated.last_entry_date
           /\ current_chat_id' = chat_id
           /\ chat_history' = initial_chat
           /\ chats' = new_chats
           /\ chat_ref' = chat_id
           /\ db_journal_entries' = file_save_journal_entries(db_journal_entries, entries)
           /\ db_chats' = file_save_chats(db_chats, new_chats)
           /\ submission_days' = submission_days \cup {now.date}
           /\ ev' = [op |-> "file_submit", entry |-> new_entry, chat_id |-> chat_id,
                     file_entries |-> db_journal_entries, file_chats |-> db_chats]
    /\ UNCHANGED <<logged_in, current_user, current_view, db_users, now>>

\* the chat view's Send button, src/v3cla.py 399-422, with the reply its
\* remote call led to
FileSend(user_input, reply) ==
    /\ current_view = "chat"
    /\ chat_history # <<>>
    /\ user_input # <<>>
    /\ LET with_reply == chat_history \o <<Msg("user", user_input), Msg("assistant", reply)>>
           \* list.append acts on the list object, which chats may hold too
           appended == IF chat_ref # Null THEN ChatSet(chats, chat_ref, with_reply)
                       ELSE chats
           new_chats == IF current_chat_id # Null
                        THEN ChatSet(appended, current_chat_id, with_reply)
                        ELSE appended
       IN  /\ chat_history' = with_reply
           /\ chats' = new_chats
           /\ chat_ref' = (IF current_chat_id # Null THEN current_chat_id ELSE chat_ref)
           /\ db_chats' = (IF current_chat_id # Null
                           THEN file_save_chats(db_chats, new_chats) ELSE db_chats)
           /\ ev' = [op |-> "file_send", message |-> user_input, reply |-> reply]
    /\ UNCHANGED <<logged_in, current_user, journal_entries, mood_scores, streak,
                   last_entry_date, current_view, current_chat_id, submission_days,
                   db_users, db_journal_entries, now>>

\* the sidebar's navigation buttons, src/v3cla.py 436-443
FileNavigate(view) ==
    /\ view \in {"journal", "chat", "history"}
    /\ current_view' = view
    /\ ev' = [op |-> "file_navigate"]
    /\ UNCHANGED <<logged_in, current_user, journal_entries, mood_scores, streak,
                   last_entry_date, chat_history, current_chat_id, chats, chat_ref,
                   submission_days, store_vars, now>>

\* a "Delete entry" button of the history view, src/v3cla.py 792-801, on
\* the entry at position i: list.remove drops the first entry equal to it
FileDelete(i) ==
    /\ current_view = "history"
    /\ i \in 1..Len(journal_entries)
    /\ LET entry == journal_entries[i]
           entry_id == chat_id_of(entry.date, entry.time)
           first == CHOOSE k \in 1..Len(journal_entries) :
                        /\ journal_entries[k] = entry
                        /\ \A j \in 1..(k - 1) : journal_entries[j] # entry
           entries == SubSeq(journal_entries, 1, first - 1)
                      \o SubSeq(journal_entries, first + 1, Len(journal_entries))
           had_chat == entry_id \in ChatIds(chats)
           new_chats == IF had_chat THEN ChatDel(chats, entry_id) ELSE chats
       IN  /\ journal_entries' = entries
           /\ chats' = new_chats
           /\ chat_ref' = (IF had_chat /\ chat_ref = entry_id THEN Null ELSE chat_ref)
           /\ db_chats' = (IF had_chat THEN file_save_chats(db_chats, new_chats)
                           ELSE db_chats)
           /\ db_journal_entries' = file_save_journal_entries(db_journal_entries, entries)
           /\ ev' = [op |-> "file_delete", entry |-> entry, chat_id |-> entry_id]
    /\ UNCHANGED <<logged_in, current_user, mood_scores, streak, last_entry_date,
                   current_view, chat_history, current_chat_id, submission_days,
                   db_users, now>>

FileInit ==
    /\ SessionInit
    /\ db_users = <<>>
    /\ db_journal_entries = <<>>
    /\ db_chats = <<>>
    /\ AuxInit
    /\ ClockInit(SessionStartDates)
    /\ steps = 0
    /\ ev = [op |-> "other"]

FileFrame == UNCHANGED <<steps, aux_vars>>

FileRunStartSession == FileFrame /\ FileStartSession

FileRunSubmit ==
    /\ FileFrame
    \* mood_scores counts the session's submissions: a deletion leaves it alone
    /\ Len(mood_scores) < MaxFileEntries
    /\ \E journal_input \in {<<>>, <<"body">>} :
          FileSubmit("Great", <<"notes">>, journal_input, <<>>, 9, <<"reflection">>)

FileRunSend ==
    /\ FileFrame
    /\ Len(chat_history) + 2 <= MaxThreadLen
    /\ FileSend(<<"hello">>, <<"reply">>)

FileRunNavigate == FileFrame /\ \E view \in {"journal", "chat", "history"} : FileNavigate(view)

FileRunDelete == FileFrame /\ \E i \in 1..Len(journal_entries) : FileDelete(i)

FileRunMinutePasses ==
    /\ FileFrame
    /\ now.minute < START_MINUTE + 1
    /\ MinutePasses

FileNext ==
    \/ FileRunStartSession
    \/ FileRunSubmit
    \/ FileRunSend
    \/ FileRunNavigate
    \/ FileRunDelete
    \/ FileRunMinutePasses

SpecFile == FileInit /\ [][FileNext]_vars

(***************************************************************************)
(* Properties.                                                             *)
(***************************************************************************)
\* the anchors the specification gives the five mood labels
AnchorOf(label) ==
    CASE label = "Very Low" -> 2
      [] label = "Low" -> 4
      [] label = "Neutral" -> 5
      [] label = "Good" -> 7
      [] label = "Great" -> 9

\* C1: a submission with empty journal text stores exactly the label's
\* anchor as mood_score, whatever the remote service would have answered,
\* and issues no mood-classification request.
C1_EmptyJournalStoresAnchor ==
    (Returned("score") /\ ev.journal_input = <<>>)
        => /\ ev.out.mood_score = AnchorOf(ev.mood_selection)
           /\ ev.out.requests = <<>>

\* C1 witness: "Great" scored with empty text against a service that would
\* have answered "1": the score is 9, not the blend 6.
C1_Witness ==
    /\ Returned("score")
    /\ ev.journal_input = <<>>
    /\ ev.mood_selection = "Great"
    /\ ev.resp = OkResponse(<<"1">>)
    /\ ev.out.mood_score = 9

\* the text score of a run of the scoring block: the reply is a 200 whose
\* text is the decimal numeral of a number in 1..10
TextScoreIs(t) ==
    /\ Returned("score")
    /\ ev.journal_input # <<>>
    /\ ev.resp.kind = "ok"
    /\ ev.resp.text = (IF t = 10 THEN <<"1", "0">> ELSE <<DigitChars[t + 1]>>)

\* C2 as stated: with journal text, anchor A and text score T in 1..10 the
\* stored score is round-half-up of 0.7*A + 0.3*T, clamped to 1..10.
C2_RoundHalfUp ==
    \A t \in 1..10 :
        TextScoreIs(t) =>
            LET tenths == 7 * AnchorOf(ev.mood_selection) + 3 * t
                rounded == CHOOSE r \in 0..20 : 10 * r - 5 <= tenths /\ tenths < 10 * r + 5
            IN  ev.out.mood_score = Max(1, Min(10, rounded))

\* C2 amended: the stored score is 0.7*A + 0.3*T truncated to an integer
\* (the floor, the sum being positive), clamped to 1..10; A = 5, T = 10
\* yields 6.
C2_Truncated ==
    \A t \in 1..10 :
        TextScoreIs(t) =>
            LET tenths == 7 * AnchorOf(ev.mood_selection) + 3 * t
                floored == CHOOSE r \in 0..20 : 10 * r <= tenths /\ tenths < 10 * r + 10
            IN  /\ ev.out.mood_score = Max(1, Min(10, floored))
                /\ (ev.mood_selection = "Neutral" /\ t = 10) => ev.out.mood_score = 6

\* C2 witness: "Neutral" (anchor 5) with the reply "10" stores 6.
C2_Witness == TextScoreIs(10) /\ ev.mood_selection = "Neutral" /\ ev.out.mood_score = 6

\* C3: the score the scoring block stores is an integer from 1 to 10 for
\* every label and every behaviour of the remote service.
C3_ScoreInRange == Returned("score") => ev.out.mood_score \in 1..10

\* C3 witness: the reply "810" with journal text stores 10.
C3_Witness ==
    /\ Returned("score")
    /\ ev.journal_input # <<>>
    /\ ev.resp = OkResponse(<<"8", "1", "0">>)
    /\ ev.out.mood_score = 10

\* the digit characters of a text, first to last
RECURSIVE DigitsIn(_)
DigitsIn(text) ==
    IF text = <<>> THEN <<>>
    ELSE IF Head(text) \in {"0", "1", "2", "3", "4", "5", "6", "7", "8", "9"}
         THEN <<Head(text)>> \o DigitsIn(Tail(text))
         ELSE DigitsIn(Tail(text))

NumeralDigit(c) ==
    CASE c = "0" -> 0 [] c = "1" -> 1 [] c = "2" -> 2 [] c = "3" -> 3 [] c = "4" -> 4
      [] c = "5" -> 5 [] c = "6" -> 6 [] c = "7" -> 7 [] c = "8" -> 8 [] c = "9" -> 9

\* the number a string of digits is the decimal numeral of
RECURSIVE NumeralValue(_, _)
NumeralValue(digits, acc) ==
    IF digits = <<>> THEN acc
    ELSE NumeralValue(Tail(digits), 10 * acc + NumeralDigit(Head(digits)))

\* C4: on a 200 reply analyze_mood returns the number whose numeral is the
\* reply's digit characters in order, and 5 when the reply has no digit.
C4_DigitConcatenation ==
    (Returned("analyze_mood") /\ ev.resp.kind = "ok")
        => ev.out.ret = (IF DigitsIn(ev.resp.text) = <<>> THEN 5
                         ELSE NumeralValue(DigitsIn(ev.resp.text), 0))

\* C4 witness: the reply "7" followed by a superscript two gives 5, with an
\* error message, where its digits read 7.
C4_Witness ==
    /\ Returned("analyze_mood")
    /\ ev.resp = OkResponse(<<"7", SUPERSCRIPT_TWO>>)
    /\ ev.out.ret = 5
    /\ ev.out.error_shown

\* a before b in the calendar
DateBefore(a, b) ==
    \/ a[1] < b[1]
    \/ a[1] = b[1] /\ a[2] < b[2]
    \/ a[1] = b[1] /\ a[2] = b[2] /\ a[3] < b[3]

StreakDates == ClockDates(StartDates, MaxStreakDays)

\* C5: one evaluation of update_streak on date d: 1 with no last entry
\* date, one more when d is the day after it, 1 when d is later than that,
\* unchanged when d is the same day; last_entry_date is d afterwards.
C5_StreakTransition ==
    ev.op = "submit" =>
        /\ ev.old_last_entry_date = Null => streak = 1
        /\ \A p \in StreakDates :
              strftime_date(p) = ev.old_last_entry_date =>
                  /\ NextDay(p) = ev.today => streak = ev.old_streak + 1
                  /\ DateBefore(NextDay(p), ev.today) => streak = 1
                  /\ p = ev.today => streak = ev.old_streak
        /\ \E p \in StreakDates : p = ev.today /\ last_entry_date = strftime_date(p)

\* C5 witness: a second submission on the day that raised the streak to 2
\* leaves it at 2.
C5_Witness ==
    /\ ev.op = "submit"
    /\ ev.old_last_entry_date = strftime_date(ev.today)
    /\ ev.old_streak = 2
    /\ streak = 2

\* the latest of a set of dates
Latest(days) == CHOOSE d \in days : \A e \in days : ~DateBefore(d, e)

\* the days in the longest run of consecutive dates of days that ends on last
RunEndingOn(last, days) ==
    LET runs == {k \in 1..Cardinality(days) :
                    \E first \in days :
                        /\ DaysAfter(first, k - 1) = last
                        /\ \A j \in 0..(k - 1) : DaysAfter(first, j) \in days}
    IN  CHOOSE k \in runs : \A other \in runs : other <= k

\* C6: once the session has submitted, streak is the length of the longest
\* run of consecutive days with a submission that ends on the day of the
\* latest submission.
C6_StreakIsRunLength ==
    submission_days # {} => streak = RunEndingOn(Latest(submission_days), submission_days)

\* C6 witness: submissions on D, D+1, D+1 and D+3 end with streak 1.
C6_Witness ==
    /\ Len(journal_entries) = 4
    /\ Cardinality(submission_days) = 3
    /\ journal_entries[2].date = journal_entries[3].date
    /\ journal_entries[1].date # journal_entries[2].date
    /\ streak = 1

\* C7: a submission leaves a thread under "<date>_<time>" of its entry with
\* exactly two messages, the user's entry context and then the assistant's
\* reflection, and makes it the current chat.
C7_SubmissionSeedsThread ==
    ev.op = "submit" =>
        LET key == ev.entry.date \o <<"_">> \o ev.entry.time
            held == {i \in 1..Len(chats) : chats[i].chat_id = key}
        IN  /\ current_chat_id = key
            /\ Cardinality(held) = 1
            /\ \A i \in held :
                  /\ Len(chats[i].messages) = 2
                  /\ chats[i].messages[1].role = "user"
                  /\ chats[i].messages[1].content =
                         <<"Mood: ", ev.entry.mood, "\n\nMood notes: ">> \o ev.entry.mood_input
                         \o <<"\n\nJournal entry: ">> \o ev.entry.journal
                  /\ chats[i].messages[2].role = "assistant"
                  /\ chats[i].messages[2].content = ev.entry.reflection

\* C7 witness: the second of two submissions made in the same minute.
C7_Witness ==
    /\ ev.op = "submit"
    /\ Len(journal_entries) = 2
    /\ journal_entries[1].time = journal_entries[2].time
    /\ journal_entries[1].date = journal_entries[2].date
    /\ Len(chats) = 1

\* C8: the messages array of a conversational turn's request is the thread
\* as it was before the send, followed by the new user message once.
C8_RequestIsThreadPlusMessage ==
    ev.op = "send" => ev.request = ev.old_chat_history \o <<Msg("user", ev.message)>>

\* a remote call that was issued and did not come back with a 200
FailedCall ==
    /\ ev.op = "return"
    /\ ev.fn \in {"analyze_mood", "get_ai_reflection", "get_ai_response", "generate_insights"}
    /\ ev.resp.kind # "ok"
    /\ ev.fn = "generate_insights" => ev.out.requests # <<>>

RECURSIVE SpacedFrom(_, _)
SpacedFrom(entries, i) ==
    IF i = Len(entries) THEN entries[i].journal
    ELSE entries[i].journal \o <<" ">> \o SpacedFrom(entries, i + 1)

\* C10: with fewer than 3 entries generate_insights returns the static
\* message and issues no request; with n >= 3 it issues one request, whose
\* text is the bodies of the last min(5, n) entries joined by single spaces.
C10_InsightsWindow ==
    Returned("generate_insights") =>
        LET n == Len(journal_entries)
        IN  IF n < 3
            THEN ev.out.ret = KEEP_JOURNALING /\ ev.out.requests = <<>>
            ELSE /\ Len(ev.out.requests) = 1
                 /\ ev.out.requests[1] =
                        SpacedFrom(journal_entries, n - (IF n < 5 THEN n ELSE 5) + 1)

\* C10 witness: six entries, the first "a" and the rest "b": the request
\* carries the five "b".
C10_Witness ==
    /\ Returned("generate_insights")
    /\ Len(journal_entries) = 6
    /\ journal_entries[1].journal = <<"a">>
    /\ ev.out.requests = << <<"b", " ", "b", " ", "b", " ", "b", " ", "b">> >>

\* the documents a collection holds for a user, in order
StoredFor(coll, user) == SelectSeq(coll, LAMBDA doc : doc.username = user)

\* the chat documents that hold exactly the threads of a chats dict
HoldsChats(docs, d) ==
    /\ Len(docs) = Len(d)
    /\ \A i \in 1..Len(d) :
          docs[i].chat_id = d[i].chat_id /\ docs[i].messages = d[i].messages

\* a save that ran with no storage error
SavedCleanly(fn) == Returned(fn) /\ ev.fault.at = "none"

\* C11: after a save with no storage error the store holds for the current
\* user exactly the in-memory journal_entries (the in-memory chats), the
\* empty list and the empty dict included.
C11_SaveReplacesAll ==
    /\ SavedCleanly("save_journal_entries") =>
           StoredFor(db_journal_entries, current_user) = journal_entries
    /\ SavedCleanly("save_chats") =>
           HoldsChats(StoredFor(db_chats, current_user), chats)

\* C11 witness: save_chats with an empty chats dict leaves the user's stored
\* threads in the store.
C11_Witness ==
    /\ SavedCleanly("save_chats")
    /\ chats = <<>>
    /\ StoredFor(db_chats, current_user) # <<>>

\* a save during which a storage operation failed
SaveFailed ==
    /\ ev.op = "return"
    /\ ev.fn \in {"save_journal_entries", "save_chats"}
    /\ ev.fault.at # "none"
    /\ ev.error_shown

\* C19: a storage failure inside a save leaves the user's stored records as
\* they were before the save, and no exception leaves the save.
C19_FailedSaveIsNoOp ==
    SaveFailed =>
        /\ ~ev.raised
        /\ ev.fn = "save_journal_entries" =>
               StoredFor(db_journal_entries, current_user) = StoredFor(ev.before, current_user)
        /\ ev.fn = "save_chats" =>
               StoredFor(db_chats, current_user) = StoredFor(ev.before, current_user)

\* C19 witness: insert_many fails after delete_many succeeded, and the two
\* entries the store held for the user are gone.
C19_Witness ==
    /\ SaveFailed
    /\ ev.fn = "save_journal_entries"
    /\ ev.fault = [at |-> "insert", done |-> 0]
    /\ Len(StoredFor(ev.before, current_user)) = 2
    /\ StoredFor(db_journal_entries, current_user) = <<>>

\* the records of a users collection that carry a username
RecordsNamed(coll, username) == {i \in 1..Len(coll) : coll[i].username = username}

\* C13: with create_user calls run one at a time no two records of the users
\* collection share a username; a call with a username already present
\* returns (False, "Username already exists") and inserts nothing.
C13_UsernamesUnique ==
    /\ \A i, j \in 1..Len(db_users) : db_users[i].username = db_users[j].username => i = j
    /\ (ev.op = "signup" /\ ev.called /\ ~ev.raised
            /\ RecordsNamed(ev.before, ev.username) # {}) =>
           /\ ~ev.success
           /\ ev.message = "Username already exists"
           /\ db_users = ev.before

\* C13 witness: a sign-up as alice, who is registered, with a valid password.
C13_Witness ==
    /\ ev.op = "signup"
    /\ ev.username = "alice"
    /\ ev.called
    /\ db_connected
    /\ ev.message = "Username already exists"

\* C14: a sign-up whose passwords differ, whose password has fewer than 6
\* characters or whose username exists inserts nothing and leaves the
\* session logged out; a record is inserted only when all three checks pass,
\* and it is the one record of the submitted username.
C14_SignupValidation ==
    ev.op = "signup" =>
        LET rejected == \/ ev.password # ev.confirm
                        \/ Len(ev.password) < 6
                        \/ RecordsNamed(ev.before, ev.username) # {}
        IN  /\ ~logged_in
            /\ rejected => (db_users = ev.before /\ ~ev.success)
            /\ db_users # ev.before =>
                   /\ ~rejected
                   /\ Len(db_users) = Len(ev.before) + 1
                   /\ SubSeq(db_users, 1, Len(ev.before)) = ev.before
                   /\ db_users[Len(db_users)].username = ev.username
                   /\ db_users[Len(db_users)].password = <<"sha256", ev.password>>

\* C14 witness: a new username with the five-character password, typed the
\* same twice, is refused and nothing is stored.
C14_Witness ==
    /\ ev.op = "signup"
    /\ ev.username = "carol"
    /\ ev.password = "short"
    /\ ev.confirm = "short"
    /\ ev.message = "Password must be at least 6 characters long."
    /\ db_users = ev.before

\* the submitted login matches some stored record
SomeRecordMatches(coll, username, password) ==
    \E i \in 1..Len(coll) :
        coll[i].username = username /\ coll[i].password = <<"sha256", password>>

\* the submitted login matches the first stored record of that username
FirstRecordMatches(coll, username, password) ==
    \E i \in 1..Len(coll) :
        /\ coll[i].username = username
        /\ coll[i].password = <<"sha256", password>>
        /\ \A j \in 1..(i - 1) : coll[j].username # username

\* C15 as stated: a login logs the session in as the submitted username if
\* and only if the database is connected and some record of that username
\* holds the hash of the submitted password; otherwise logged_in,
\* current_user, journal_entries and chats are unchanged.
C15_LoginIffSomeRecord ==
    [][ev'.op = "login" =>
          IF db_connected /\ SomeRecordMatches(db_users, ev'.username, ev'.password)
          THEN logged_in' /\ current_user' = ev'.username
          ELSE UNCHANGED <<logged_in, current_user, journal_entries, chats>>]_vars

\* C15 amended: the record that decides is the one find_one returns, the
\* first stored record of that username.
C15_LoginIffFirstRecord ==
    [][ev'.op = "login" =>
          IF db_connected /\ FirstRecordMatches(db_users, ev'.username, ev'.password)
          THEN logged_in' /\ current_user' = ev'.username
          ELSE UNCHANGED <<logged_in, current_user, journal_entries, chats>>]_vars

\* C15 witness: two records of carol with different passwords are stored and
\* a login with the second one's password was refused.
C15_Witness ==
    /\ ev.op = "login"
    /\ ev.username = "carol"
    /\ ~logged_in
    /\ SomeRecordMatches(db_users, ev.username, ev.password)
    /\ ~FirstRecordMatches(db_users, ev.username, ev.password)
    /\ ev.message = "Invalid username or password."

\* the sign-up requests that reported success for a username
Succeeded(username) ==
    {r \in SignupRequests :
        signups[r].pc = "done" /\ signups[r].success /\ signups[r].username = username}

\* C20: every sign-up request that reports success has inserted a record of
\* its username, whatever the collection held by then: the records of a
\* username are those registered at the start and one per such request.
C20_EverySuccessInserted ==
    \A u \in {"alice", "carol"} :
        Cardinality(RecordsNamed(db_users, u))
            = Cardinality(RecordsNamed(RegisteredUsers, u)) + Cardinality(Succeeded(u))

\* C20 witness: both requests reported success for carol and the collection
\* holds two records of carol.
C20_Witness ==
    /\ Succeeded("carol") = SignupRequests
    /\ Cardinality(RecordsNamed(db_users, "carol")) = 2

\* C12: a submission writes the submitting session's own list over the
\* user's stored entries, whatever another session stored there since that
\* session loaded: after it the user's stored entries are exactly that
\* session's journal_entries.
C12_LastWriterWins ==
    /\ ev.op = "submit" =>
           StoredFor(db_journal_entries, current_user) = journal_entries
    /\ ev.op = "tab_submit" =>
           StoredFor(db_journal_entries, tab.current_user) = tab.journal_entries

\* C12 witness: both sessions are alice's; an entry this session submitted,
\* and still holds, is no longer among her stored entries after the other
\* session's submission.
C12_Witness ==
    /\ ev.op = "tab_submit"
    /\ logged_in /\ tab.logged_in
    /\ current_user = tab.current_user
    /\ \E i \in 1..Len(journal_entries) :
          /\ journal_entries[i].mood_input = <<"notes">>
          /\ \A k \in 1..Len(db_journal_entries) :
                db_journal_entries[k] # journal_entries[i]

\* a list without its element at position i
Without(list, i) == SubSeq(list, 1, i - 1) \o SubSeq(list, i + 1, Len(list))

Elements(list) == {list[i] : i \in 1..Len(list)}

\* C16: an entry's fields are fixed at creation.  In every step the
\* session's list is what it was, or that with the entry just created
\* appended, or that with the deleted entry removed, or the user's stored
\* entries as loaded; and every stored entry is one that was stored or held
\* in the session before the step, or the entry just created.
C16_EntriesNeverMutated ==
    [][/\ \/ journal_entries' = journal_entries
          \/ ev'.op = "submit" /\ journal_entries' = Append(journal_entries, ev'.entry)
          \/ ev'.op = "delete" /\ journal_entries' = Without(journal_entries, ev'.position)
          \/ /\ ev'.op \in {"login", "analytics"}
             /\ journal_entries' = StoredFor(db_journal_entries, current_user')
       /\ Elements(db_journal_entries') \subseteq
              Elements(db_journal_entries) \cup Elements(journal_entries)
              \cup (IF ev'.op = "submit" THEN {ev'.entry} ELSE {})]_vars

\* C16 witness: of two different entries one was deleted, and the session
\* and the store hold the other as it was.
C16_Witness ==
    /\ ev.op = "delete"
    /\ Len(ev.old_journal_entries) = 2
    /\ ev.old_journal_entries[1] # ev.old_journal_entries[2]
    /\ journal_entries = <<ev.old_journal_entries[3 - ev.position]>>
    /\ db_journal_entries = journal_entries

\* how often a list or a collection holds an entry
Copies(list, entry) == Cardinality({i \in 1..Len(list) : list[i] = entry})

\* C17: a deletion removes that one entry from journal_entries and the
\* thread under its "<date>_<time>" from chats, leaves the other entries and
\* threads as they were, and leaves neither the entry nor the thread in the
\* user's stored records.
C17_DeleteRemovesEntryAndThread ==
    ev.op = "delete" =>
        /\ journal_entries = Without(ev.old_journal_entries, ev.position)
        /\ chats = SelectSeq(ev.old_chats, LAMBDA c : c.chat_id # ev.chat_id)
        /\ Copies(StoredFor(db_journal_entries, current_user), ev.entry)
               = Copies(journal_entries, ev.entry)
        /\ \A k \in 1..Len(db_chats) :
              ~(db_chats[k].username = current_user /\ db_chats[k].chat_id = ev.chat_id)

\* C17 witness: the user's only entry is deleted; its thread has left the
\* chats dict and is still stored.
C17_Witness ==
    /\ ev.op = "delete"
    /\ journal_entries = <<>>
    /\ chats = <<>>
    /\ StoredFor(db_journal_entries, current_user) = <<>>
    /\ \E k \in 1..Len(db_chats) :
          db_chats[k].username = current_user /\ db_chats[k].chat_id = ev.chat_id

\* the interactions C18 names
Interaction == ev.op \in {"submit", "send", "apply", "delete", "analytics"}

SubmitStep == ev'.op = "submit" /\ journal_entries' = Append(journal_entries, ev'.entry)

\* a step in which a login succeeded
LoginStep == ev'.op = "login" /\ ~logged_in /\ logged_in'

\* streak and last_entry_date after the step are what one evaluation of
\* update_streak makes of them on the day of the step
StreakEvaluated ==
    /\ streak' = update_streak(streak, last_entry_date, now.date).streak
    /\ last_entry_date' = update_streak(streak, last_entry_date, now.date).last_entry_date

\* C21 as stated: the streak rule is evaluated in every submission, and at
\* the start of a user's session (a successful login) when last_entry_date
\* is not today; no other step changes streak or last_entry_date.
C21_EvaluatedAtSessionStart ==
    [][/\ SubmitStep => StreakEvaluated
       /\ (LoginStep /\ last_entry_date # strftime_date(now.date)) => StreakEvaluated
       /\ ~SubmitStep /\ ~LoginStep => UNCHANGED <<streak, last_entry_date>>]_vars

\* C21 amended: the streak rule is evaluated in every submission and nowhere
\* else; every other step, a login included, leaves streak and
\* last_entry_date as they were.
C21_EvaluatedOnSubmissionOnly ==
    [][/\ SubmitStep => StreakEvaluated
       /\ ~SubmitStep => UNCHANGED <<streak, last_entry_date>>]_vars

\* C21 witness: a login on a later day than the last submission has left
\* the streak and its date as the submission set them.
C21_Witness ==
    /\ ev.op = "login"
    /\ logged_in
    /\ streak = 1
    /\ last_entry_date # Null
    /\ last_entry_date # strftime_date(now.date)

\* C22: streak is an integer >= 0; it is 0 exactly when last_entry_date is
\* null, which is exactly when the session has made no submission; after an
\* evaluation of update_streak streak >= 1 and last_entry_date is non-null.
C22_StreakZeroIffNoDate ==
    /\ streak \in Nat
    /\ streak = 0 <=> last_entry_date = Null
    /\ last_entry_date = Null <=> submission_days = {}
    /\ ev.op = "submit" => (streak >= 1 /\ last_entry_date # Null)

\* C22 witness: a submission after a gap of more than a day has reset a
\* streak of 2 to 1.
C22_Witness ==
    /\ ev.op = "submit"
    /\ ev.old_streak = 2
    /\ streak = 1
    /\ last_entry_date = strftime_date(ev.today)

\* a is the beginning of b
IsPrefix(a, b) == Len(a) <= Len(b) /\ SubSeq(b, 1, Len(a)) = a

\* a step in which the Send handler, or the Apply Settings handler, ran
SendStep == ev'.op = "send" /\ chat_history' # chat_history

ApplyStep == ev'.op = "apply" /\ chat_history' # chat_history

\* C23: a send appends the user's message and then the assistant's reply
\* to the session's thread; a send or a settings change only ever extends
\* that thread, every thread of the chats dict and every stored thread of
\* the user.
C23_ThreadsOnlyGrow ==
    [][/\ SendStep =>
              chat_history' = chat_history \o <<Msg("user", ev'.message),
                                                Msg("assistant", ev'.reply)>>
       /\ (SendStep \/ ApplyStep) =>
              /\ IsPrefix(chat_history, chat_history')
              /\ \A i \in 1..Len(chats) :
                    /\ chats[i].chat_id \in ChatIds(chats')
                    /\ IsPrefix(chats[i].messages, ChatGet(chats', chats[i].chat_id))
              /\ \A k \in 1..Len(db_chats) :
                    db_chats[k].username = current_user =>
                        \E j \in 1..Len(db_chats') :
                            /\ db_chats'[j].username = current_user
                            /\ db_chats'[j].chat_id = db_chats[k].chat_id
                            /\ IsPrefix(db_chats[k].messages, db_chats'[j].messages)]_vars

\* C23 witness: after a logout and a login a send has reached the session's
\* chat_history and the stored thread, and not the thread the chats dict
\* holds under the same id.
C23_Witness ==
    /\ ev.op = "send"
    /\ Len(chat_history) = 4
    /\ current_chat_id \in ChatIds(chats)
    /\ Len(ChatGet(chats, current_chat_id)) = 2
    /\ \E k \in 1..Len(db_chats) :
          /\ db_chats[k].username = current_user
          /\ db_chats[k].chat_id = current_chat_id
          /\ db_chats[k].messages = chat_history

\* the "<date>_<time>" keys of a list of entries
EntryIds(entries) == {chat_id_of(entries[i].date, entries[i].time) : i \in 1..Len(entries)}

\* C27: while a user is signed in, every key of chats, and the chat_id of
\* every stored thread that is the user's or carries no username, is the
\* "<date>_<time>" of an entry in journal_entries.
C27_ThreadsBelongToEntries ==
    logged_in =>
        /\ ChatIds(chats) \subseteq EntryIds(journal_entries)
        /\ \A k \in 1..Len(db_chats) :
              db_chats[k].username \in {current_user, None} =>
                  db_chats[k].chat_id \in EntryIds(journal_entries)

\* C27 witness: a send made after the deletion of the current chat's entry
\* has stored a thread under that entry's id again, while another entry and
\* its thread remain.
C27_Witness ==
    /\ ev.op = "send"
    /\ logged_in
    /\ Len(journal_entries) = 1
    /\ ChatIds(chats) = EntryIds(journal_entries)
    /\ current_chat_id \notin EntryIds(journal_entries)
    /\ \E k \in 1..Len(db_chats) :
          /\ db_chats[k].chat_id = current_chat_id
          /\ db_chats[k].username = None
          /\ db_chats[k].messages = chat_history

\* C24: a step taken while a user is signed in leaves the stored chats and
\* the stored journal entries of every other user as they were.
C24_OtherUsersRecordsUntouched ==
    [][logged_in =>
          \A other \in Usernames \ {current_user} :
              /\ StoredFor(db_chats', other) = StoredFor(db_chats, other)
              /\ StoredFor(db_journal_entries', other)
                     = StoredFor(db_journal_entries, other)]_vars

\* C24 witness: a send made by bob has replaced the messages of alice's
\* stored thread with what bob's session shows.
C24_Witness ==
    /\ ev.op = "send"
    /\ logged_in
    /\ current_user = "bob"
    /\ \E k \in 1..Len(db_chats) :
          /\ db_chats[k].username = "alice"
          /\ db_chats[k].messages = chat_history
          /\ Len(chat_history) = 4

\* the user whose entries the session still holds from before a login
HeldEntriesOf(username) ==
    journal_entries # <<>> /\ journal_entries[1].username = username

\* C25: a successful login made while the session still holds another
\* user's entries leaves journal_entries and chats as loaded for the new
\* user, chat_history empty or one of the new user's threads,
\* current_chat_id null or the id of one, mood_scores the scores of the new
\* user's entries or empty, streak 0 and last_entry_date null.
C25_NothingCarriedOver ==
    [][(LoginStep /\ \E previous \in Usernames \ {current_user'} : HeldEntriesOf(previous)) =>
          /\ journal_entries' = load_journal_entries(db_journal_entries, current_user')
          /\ chats' = load_chats(db_chats, current_user')
          /\ \/ chat_history' = <<>>
             \/ \E i \in 1..Len(chats') : chat_history' = chats'[i].messages
          /\ current_chat_id' = Null \/ current_chat_id' \in ChatIds(chats')
          /\ \/ mood_scores' = <<>>
             \/ mood_scores' = [i \in 1..Len(journal_entries') |->
                                    journal_entries'[i].mood_score]
          /\ streak' = 0
          /\ last_entry_date' = Null]_vars

\* C25 witness: bob has signed in after alice; he has no entries and no
\* chats, and the session still holds her thread, its id, her score and
\* her streak.
C25_Witness ==
    /\ ev.op = "login"
    /\ logged_in
    /\ current_user = "bob"
    /\ journal_entries = <<>>
    /\ chats = <<>>
    /\ Len(chat_history) = 2
    /\ current_chat_id # Null
    /\ Len(mood_scores) = 1
    /\ streak = 1
    /\ last_entry_date # Null
    /\ StoredFor(db_journal_entries, "alice") # <<>>

\* C26: a step taken while nobody is signed in leaves the stored entries
\* and chats, journal_entries (but for the load of a login), chats (the
\* same) and chat_history as they were; it changes the session or the store
\* only if it is a login or a sign-up, and it records no remote call.
C26_LoggedOutOnlyLoginOrSignup ==
    [][~logged_in =>
          /\ db_journal_entries' = db_journal_entries
          /\ db_chats' = db_chats
          /\ chat_history' = chat_history
          /\ journal_entries' # journal_entries => LoginStep
          /\ chats' # chats => LoginStep
          /\ \/ UNCHANGED <<session_vars, store_vars, ev>>
             \/ ev'.op \in {"login", "signup"}]_vars

\* C26 witness: a visitor has signed up without being signed in: the users
\* collection has grown, and the session and the other collections are as
\* a logout left them.
C26_Witness ==
    /\ ev.op = "signup"
    /\ ev.success
    /\ ~logged_in
    /\ Len(db_users) = Len(RegisteredUsers) + 1
    /\ journal_entries # <<>>
    /\ db_journal_entries # <<>>

\* the mood_score values of a list of entries, in order
ScoresOf(entries) == [i \in 1..Len(entries) |-> entries[i].mood_score]

\* C28: while a user is signed in, mood_scores is the list of the
\* mood_score values of journal_entries, in order.
C28_MoodScoresMirrorEntries ==
    logged_in => mood_scores = ScoresOf(journal_entries)

\* C28 witness: the only entry was deleted and its score is still in
\* mood_scores.
C28_Witness ==
    /\ ev.op = "delete"
    /\ logged_in
    /\ journal_entries = <<>>
    /\ mood_scores = <<ev.entry.mood_score>>

\* C29: a submission adds one thread to chats and leaves every thread that
\* chats held before it as it was.
C29_SubmissionAddsThread ==
    [][SubmitStep =>
          /\ Len(chats') = Len(chats) + 1
          /\ \A i \in 1..Len(chats) : chats'[i] = chats[i]]_vars

\* C29 witness: two entries with different journal text were submitted in
\* the same minute; chats holds one thread, seeded from the second entry.
C29_Witness ==
    /\ ev.op = "submit"
    /\ Len(journal_entries) = 2
    /\ Len(mood_scores) = 2
    /\ journal_entries[1].journal # journal_entries[2].journal
    /\ EntryIds(journal_entries) = {ev.chat_id}
    /\ Len(chats) = 1
    /\ chats[1].messages[1].content =
           <<"Mood: ", journal_entries[2].mood, "\n\nMood notes: ">>
           \o journal_entries[2].mood_input
           \o <<"\n\nJournal entry: ">> \o journal_entries[2].journal
    /\ Len(StoredFor(db_chats, current_user)) = 1
    /\ Len(StoredFor(db_journal_entries, current_user)) = 2

\* a step in which a new session started, or the file-backed submit
\* handler ran
FileStartStep == ev'.op = "file_start" /\ ev' # ev

FileSubmitStep ==
    ev'.op = "file_submit" /\ journal_entries' = Append(journal_entries, ev'.entry)

\* C30: a new session starts with journal_entries and chats as the files
\* hold them, and a submission leaves in the files every entry and every
\* thread they held before it.
C30_FileKeepsEarlierSessions ==
    [][/\ FileStartStep =>
              /\ journal_entries' = db_journal_entries
              /\ chats' = db_chats
       /\ FileSubmitStep =>
              /\ Elements(db_journal_entries) \subseteq Elements(db_journal_entries')
              /\ ChatIds(db_chats) \subseteq ChatIds(db_chats')]_vars

\* C30 witness: the first submission of a new session has left its entry
\* and its thread alone in the files, which held an entry and a thread of
\* the minute before.
C30_Witness ==
    /\ ev.op = "file_submit"
    /\ Len(ev.file_entries) = 1
    /\ ev.file_entries[1].time # ev.entry.time
    /\ ChatIds(ev.file_chats) = EntryIds(ev.file_entries)
    /\ journal_entries = <<ev.entry>>
    /\ db_journal_entries = <<ev.entry>>
    /\ ChatIds(db_chats) = {ev.chat_id}

====
